---- MODULE Spec2Model ----
(***************************************************************************)
(* Connection manager of the NFD Agents chat hook                          *)
(* (src/src/hooks/useNfdAgentsWebSocket.js): socket lifecycle, reconnect   *)
(* policy, config bootstrap and session id.                                *)
(*                                                                         *)
(* Every handler of the hook is one atomic step (the event loop runs one   *)
(* callback at a time).  React state holds the value of the latest         *)
(* setState call; the refs that mirror state (connectionStateRef,          *)
(* prevConnectionStateRef) are only brought up to date by RunEffects, the  *)
(* step that runs the hook's effects after a render.                       *)
(***************************************************************************)
EXTENDS Integers, FiniteSets, Sequences, TLC

\* ------------------------------------------------------------------ bounds
MaxSockets == 2      \* sockets that exist at once (slots are reused after the close event)
MaxTimers == 2       \* reconnect timers pending at once
MaxFetch == 2        \* connect() invocations suspended on the Config Resolver at once
MaxGen == 2          \* session ids generated in one run
NumServerSids == 1   \* distinct session ids the server / the archive can supply
MaxCalls == 2        \* calls the consumer makes into the hook in one run

\* ------------------------------------------------------- program constants
MAX_RECONNECT_ATTEMPTS == 5
RECONNECT_DELAY == 1000
NORMAL_CLOSE == 1000
WS_CLOSE_AUTH_FAILED == 4000

\* every code other than NORMAL_CLOSE takes the same branch of ws.onclose
CloseCodes == {NORMAL_CLOSE, WS_CLOSE_AUTH_FAILED}
\* cap of the history counter of consecutive abnormal closes
MaxRun == MAX_RECONNECT_ATTEMPTS + 1
Slots == 1..MaxSockets
TimerSlots == 1..MaxTimers
ServerSids == 1..NumServerSids
ConnStates == {"disconnected", "connecting", "connected", "reconnecting", "failed"}

VARIABLES
    \* refs of the hook
    wsRef,                  \* 0 = null, else the slot of the current socket
    connectingRef,
    configRef,              \* "null" or "cfg"
    reconnectAttempts,
    reconnectTimeoutRef,    \* 0 = null, -1 = id of a timer that is no longer pending, else timer slot
    typingTimeoutRef,       \* TRUE = a typing-inactivity timer is pending
    sessionIdRef,           \* 0 = null
    connectionStateRef,
    prevConnectionStateRef,
    previousAutoConnectRef, \* "null", "true", "false"
    \* React state of the hook
    connectionState,
    retryAttempt,
    error,                  \* "null" or "set"
    isTyping,
    \* props
    autoConnect,
    \* environment
    socks,                  \* slot -> "NONE" (no socket), "CONNECTING", "OPEN", "CLOSING" (close() called
                            \* while open), "ABORTED" (close() called while connecting; readyState is
                            \* CLOSING), "CLOSED" (error event delivered, close event due)
    pendingClose,           \* slot whose close event follows its error event in the same task, or 0
    timers,                 \* timer slot -> delay in ms of a pending reconnect timer, 0 = free
    fetching,               \* number of connect() invocations awaiting fetchAgentConfig
    genCount,               \* session ids generated so far
    storedSid,              \* localStorage[SESSION_STORAGE_KEY], 0 = absent
    failedFlag,             \* sessionStorage[`${keyPrefix}-connection-failed`] === '1'
    \* history variables (observations only, never read by the program)
    last,                   \* the step just taken
    abnormalRun,            \* abnormal closes since the last open / manualRetry / clearChatHistory
    lastDelay,              \* delay of the latest reconnect timer scheduled in that run, 0 = none
    discSince,              \* disconnect() returned and the caller has not asked to connect since
    sidBase,                \* session id in force since the last reset of the session, 0 = none yet
    lastUrlSid,             \* session id in the URL of the socket created most recently
    calls,                  \* calls the consumer has made into the hook
    \* message protocol: React state
    messages,               \* the transcript: sequence of [role, content, tag]
    currentResponse,        \* committed value of the streaming buffer state
    crQueue,                \* updates of currentResponse queued for the next render
    conversationId,         \* 0 = null
    status,                 \* "null" or the status of the latest event
    errorValue,             \* the string held by error, <<>> when error is null
    \* message protocol: refs and closures
    messagesRef,            \* length of messagesRef.current
    isStoppedRef,
    hasUserMessageRef,
    lastStreamedContent,    \* slot -> closure variable of the handler of that socket
    flushedReasoningText,   \* slot -> closure variable of the handler of that socket
    storedConv,             \* localStorage[CONVERSATION_STORAGE_KEY], 0 = absent
    storedHistory,          \* localStorage[STORAGE_KEY]: [has, v], v the stored transcript
    dispatched,             \* the batches the consumer's tool callback was called with
    renderPending,          \* a state update has been queued since the last render
    \* message protocol: history variables
    mlast,                  \* the step just taken
    turn,                   \* sendMessage() calls that submitted a user message
    turnChunks,             \* payloads of the chunk frames received in a row, concatenated
    stoppedTurn,            \* turn in which stopRequest() was last called, 0 = never
    frames,                 \* frames the server has sent
    drops,                  \* sockets that have failed
    stops,                  \* stopRequest() calls
    \* browser storage the chat store works on
    ls,                     \* site scope -> suffix -> [has, v]: the localStorage keys of the chat
                            \* under one key prefix; has = FALSE when the key is absent
    lsSiteId,               \* localStorage['nfd-ai-chat-site-id'], 0 = absent
    keyScopes,              \* render: the key prefix the latest render built its keys with;
                            \* handler: the prefix of the keys that the message handler of
                            \* the current connection writes to, -1 = no connection
    \* chat store: history variables
    slast,                  \* the store operation just run, its arguments and its result
    archLog,                \* the archiveConversation() calls that wrote, most recent first
    archOnly,               \* archiveConversation() alone has written the archive so far
    clock,                  \* store operations run so far (the time of day)
    migratedConn            \* the connect() of the current connection cached a new site id

progVars == <<wsRef, connectingRef, configRef, reconnectAttempts, reconnectTimeoutRef,
              typingTimeoutRef, sessionIdRef, connectionStateRef, prevConnectionStateRef,
              previousAutoConnectRef, connectionState, retryAttempt, error,
              isTyping, autoConnect, socks, pendingClose, timers, fetching,
              genCount, storedSid, failedFlag>>
histVars == <<last, abnormalRun, lastDelay, discSince, sidBase, lastUrlSid, calls>>
msgVars == <<messages, currentResponse, crQueue, conversationId, status, errorValue,
             messagesRef, isStoppedRef, hasUserMessageRef, lastStreamedContent,
             flushedReasoningText, storedConv, storedHistory, dispatched, renderPending>>
msgHistVars == <<mlast, turn, turnChunks, stoppedTurn, frames, drops, stops>>
storeVars == <<ls, lsSiteId, keyScopes, slast, archLog, archOnly, clock, migratedConn>>
vars == <<progVars, histVars, msgVars, msgHistVars, storeVars>>

\* The program state as one record, so that handlers compose (disconnect(); connect()).
\* ovf marks a result that would exceed a bound of the model; such steps are not taken.
St ==
    [wsRef |-> wsRef, connectingRef |-> connectingRef, configRef |-> configRef,
     reconnectAttempts |-> reconnectAttempts, reconnectTimeoutRef |-> reconnectTimeoutRef,
     typingTimeoutRef |-> typingTimeoutRef, sessionIdRef |-> sessionIdRef,
     connectionStateRef |-> connectionStateRef,
     prevConnectionStateRef |-> prevConnectionStateRef,
     previousAutoConnectRef |-> previousAutoConnectRef,
     connectionState |-> connectionState, retryAttempt |-> retryAttempt, error |-> error,
     isTyping |-> isTyping,
     autoConnect |-> autoConnect, socks |-> socks, pendingClose |-> pendingClose,
     timers |-> timers, fetching |-> fetching, genCount |-> genCount,
     storedSid |-> storedSid, failedFlag |-> failedFlag, ovf |-> FALSE]

Apply(r) ==
    /\ ~r.ovf
    /\ wsRef' = r.wsRef
    /\ connectingRef' = r.connectingRef
    /\ configRef' = r.configRef
    /\ reconnectAttempts' = r.reconnectAttempts
    /\ reconnectTimeoutRef' = r.reconnectTimeoutRef
    /\ typingTimeoutRef' = r.typingTimeoutRef
    /\ sessionIdRef' = r.sessionIdRef
    /\ connectionStateRef' = r.connectionStateRef
    /\ prevConnectionStateRef' = r.prevConnectionStateRef
    /\ previousAutoConnectRef' = r.previousAutoConnectRef
    /\ connectionState' = r.connectionState
    /\ retryAttempt' = r.retryAttempt
    /\ error' = r.error
    /\ isTyping' = r.isTyping
    /\ autoConnect' = r.autoConnect
    /\ socks' = r.socks
    /\ pendingClose' = r.pendingClose
    /\ timers' = r.timers
    /\ fetching' = r.fetching
    /\ genCount' = r.genCount
    /\ storedSid' = r.storedSid
    /\ failedFlag' = r.failedFlag

\* ----------------------------------------------------------------- helpers
Pow2(n) == IF n <= 0 THEN 1 ELSE 2 ^ n

FreeSlots(r) == {s \in Slots : r.socks[s] = "NONE"}
FirstFree(r) == CHOOSE s \in FreeSlots(r) : \A t \in FreeSlots(r) : s <= t
FreeTimers(r) == {t \in TimerSlots : r.timers[t] = 0}
FirstFreeTimer(r) == CHOOSE t \in FreeTimers(r) : \A u \in FreeTimers(r) : t <= u

\* wsRef.current?.readyState is OPEN or CONNECTING
WsUsable(r) == r.wsRef # 0 /\ r.socks[r.wsRef] \in {"OPEN", "CONNECTING"}
WsOpen(r) == r.wsRef # 0 /\ r.socks[r.wsRef] = "OPEN"

\* ws.close(): a socket that is connecting or open starts closing; otherwise nothing happens
CloseSock(sk, s) ==
    IF sk[s] = "OPEN" THEN [sk EXCEPT ![s] = "CLOSING"]
    ELSE IF sk[s] = "CONNECTING" THEN [sk EXCEPT ![s] = "ABORTED"]
    ELSE sk

\* clearTimeout(reconnectTimeoutRef.current): cancels the timer if it is still pending
ClearReconnectTimer(r) ==
    IF r.reconnectTimeoutRef \in TimerSlots
    THEN [r EXCEPT !.timers[r.reconnectTimeoutRef] = 0, !.reconnectTimeoutRef = -1]
    ELSE r

\* ---------------------------------------------------------------- connect()
\* variant of ConnectCatch that forgets the connection-failed flag
ConnectCatchNoFlag(r) ==
    [r EXCEPT !.connectingRef = FALSE, !.connectionState = "failed"]

\* catch (connectError) { ... }
ConnectCatch(r) ==
    [r EXCEPT !.connectingRef = FALSE, !.connectionState = "failed", !.failedFlag = TRUE]

\* generateSessionId(): a fresh id
GenerateSessionId(r) == NumServerSids + r.genCount + 1

\* variant of OpenSocket that generates a session id for every socket
OpenSocketFreshId(r) ==
    IF r.configRef = "null" THEN ConnectCatch(r)
    ELSE IF FreeSlots(r) = {} \/ r.genCount >= MaxGen
    THEN [r EXCEPT !.ovf = TRUE]
    ELSE LET r1 == [r EXCEPT !.sessionIdRef = GenerateSessionId(r), !.genCount = @ + 1]
             s == FirstFree(r1)
         IN [r1 EXCEPT !.socks[s] = "CONNECTING", !.wsRef = s]

\* connect(), from "const config = configRef.current" to "wsRef.current = ws"
OpenSocket(r) ==
    IF r.configRef = "null" THEN ConnectCatch(r)
    ELSE IF FreeSlots(r) = {} \/ (r.sessionIdRef = 0 /\ r.genCount >= MaxGen)
    THEN [r EXCEPT !.ovf = TRUE]
    ELSE LET r1 == IF r.sessionIdRef = 0
                   THEN [r EXCEPT !.sessionIdRef = GenerateSessionId(r),
                                  !.genCount = @ + 1]
                   ELSE r
             s == FirstFree(r1)
         IN [r1 EXCEPT !.socks[s] = "CONNECTING", !.wsRef = s]

\* variant of Connect without the connectingRef guard
ConnectNoInFlightGuard(r) ==
    IF WsUsable(r) THEN r
    ELSE LET r1 == [r EXCEPT !.failedFlag = FALSE, !.connectingRef = TRUE,
                             !.connectionState = "connecting",
                             !.error = "null"]
         IN IF r1.configRef = "null"
            THEN IF r1.fetching >= MaxFetch THEN [r1 EXCEPT !.ovf = TRUE]
                 ELSE [r1 EXCEPT !.fetching = @ + 1]
            ELSE OpenSocket(r1)

\* connect(), from the guards to the await of fetchAgentConfig (or, with the
\* config cached, synchronously through to the creation of the socket)
Connect(r) ==
    IF WsUsable(r) THEN r
    ELSE IF r.connectingRef THEN r
    ELSE LET r1 == [r EXCEPT !.failedFlag = FALSE, !.connectingRef = TRUE,
                             !.connectionState = "connecting",
                             !.error = "null"]
         IN IF r1.configRef = "null"
            THEN IF r1.fetching >= MaxFetch THEN [r1 EXCEPT !.ovf = TRUE]
                 ELSE [r1 EXCEPT !.fetching = @ + 1]
            ELSE OpenSocket(r1)

\* connect() returns at one of its three guards
ConnectGuarded(r) == WsUsable(r) \/ r.connectingRef

\* variant of ConnectResume that uses the resolved config without caching it
ConnectResumeNoCache(r, res) ==
    LET r1 == [r EXCEPT !.fetching = @ - 1] IN
    IF res = "throw" THEN ConnectCatch(r1)
    ELSE [OpenSocket([r1 EXCEPT !.configRef = IF res = "ok" THEN "cfg" ELSE "null"])
            EXCEPT !.configRef = "null"]

\* connect() resumes after the await: res is "ok" (a config), "null" (resolved
\* without a config) or "throw" (fetchAgentConfig rejected)
ConnectResume(r, res) ==
    LET r1 == [r EXCEPT !.fetching = @ - 1] IN
    IF res = "throw" THEN ConnectCatch(r1)
    ELSE OpenSocket([r1 EXCEPT !.configRef = IF res = "ok" THEN "cfg" ELSE "null"])

\* --------------------------------------------------------- socket handlers
\* variant of OnOpen that keeps the attempt counter
OnOpenKeepsCount(r) ==
    [r EXCEPT !.connectingRef = FALSE, !.connectionState = "connected",
              !.retryAttempt = 0, !.error = "null"]

OnOpen(r) ==
    [r EXCEPT !.connectingRef = FALSE, !.connectionState = "connected", !.retryAttempt = 0, !.error = "null",
              !.reconnectAttempts = 0]

OnError(r) ==
    [r EXCEPT !.connectingRef = FALSE, !.connectionState = "failed", !.failedFlag = TRUE]

\* variant of BackoffDelay that grows linearly
BackoffDelayLinear(n) == RECONNECT_DELAY * n

\* delay of the reconnect scheduled when the attempt counter has become n
BackoffDelay(n) == RECONNECT_DELAY * Pow2(n - 1)

\* variant of OnCloseBranch that allows one more retry (<= for <)
OnCloseBranchOneMore(r, code) ==
    IF code # NORMAL_CLOSE /\ r.reconnectAttempts <= MAX_RECONNECT_ATTEMPTS
    THEN IF FreeTimers(r) = {} THEN [r EXCEPT !.ovf = TRUE]
         ELSE LET n == r.reconnectAttempts + 1
                  t == FirstFreeTimer(r)
              IN [r EXCEPT !.reconnectAttempts = n, !.retryAttempt = n,
                           !.connectionState = "reconnecting",
                           !.timers[t] = BackoffDelay(n),
                           !.reconnectTimeoutRef = t]
    ELSE IF r.reconnectAttempts >= MAX_RECONNECT_ATTEMPTS
    THEN [r EXCEPT !.connectionState = "failed", !.failedFlag = TRUE]
    ELSE [r EXCEPT !.connectionState = "disconnected"]

\* the branch of ws.onclose that decides between reconnecting, failed and disconnected
OnCloseBranch(r, code) ==
    IF code # NORMAL_CLOSE /\ r.reconnectAttempts < MAX_RECONNECT_ATTEMPTS
    THEN IF FreeTimers(r) = {} THEN [r EXCEPT !.ovf = TRUE]
         ELSE LET n == r.reconnectAttempts + 1
                  t == FirstFreeTimer(r)
              IN [r EXCEPT !.reconnectAttempts = n, !.retryAttempt = n,
                           !.connectionState = "reconnecting",
                           !.timers[t] = BackoffDelay(n),
                           !.reconnectTimeoutRef = t]
    ELSE IF r.reconnectAttempts >= MAX_RECONNECT_ATTEMPTS
    THEN [r EXCEPT !.connectionState = "failed", !.failedFlag = TRUE]
    ELSE [r EXCEPT !.connectionState = "disconnected"]

OnClose(r, s, code) ==
    OnCloseBranch(
        [r EXCEPT !.connectingRef = FALSE, !.isTyping = FALSE,
                  !.wsRef = IF r.wsRef = s THEN 0 ELSE r.wsRef],
        code)

\* ------------------------------------------------------------- caller's API
Disconnect(r) ==
    LET r1 == ClearReconnectTimer(r)
        r2 == [r1 EXCEPT !.typingTimeoutRef = FALSE]
        r3 == IF r2.wsRef # 0
              THEN [r2 EXCEPT !.socks = CloseSock(r2.socks, r2.wsRef), !.wsRef = 0]
              ELSE r2
    IN [r3 EXCEPT !.connectionState = "disconnected"]

\* variant of ManualRetry that keeps the attempt counter
ManualRetryKeepsCount(r) ==
    Connect([r EXCEPT !.retryAttempt = 0, !.error = "null"])

ManualRetry(r) ==
    Connect([r EXCEPT !.reconnectAttempts = 0, !.retryAttempt = 0, !.error = "null"])

ClearChatHistory(r) ==
    LET r1 == [r EXCEPT !.storedSid = 0, !.isTyping = FALSE, !.error = "null",
                        !.sessionIdRef = 0]
        r2 == IF r1.wsRef # 0
              THEN [r1 EXCEPT !.socks = CloseSock(r1.socks, r1.wsRef), !.wsRef = 0]
              ELSE r1
        r3 == [r2 EXCEPT !.typingTimeoutRef = FALSE]
        r4 == IF r3.reconnectTimeoutRef # 0
              THEN [ClearReconnectTimer(r3) EXCEPT !.reconnectTimeoutRef = 0]
              ELSE r3
    IN [r4 EXCEPT !.reconnectAttempts = 0]

\* sendMessage(message, convId): hasConv tells whether convId was passed
SendMessage(r, hasConv) ==
    LET isFailed == \/ r.connectionStateRef = "failed"
                    \/ (r.reconnectAttempts >= MAX_RECONNECT_ATTEMPTS /\ ~WsOpen(r))
    IN IF isFailed /\ ~hasConv
       THEN [r EXCEPT !.error = "null", !.isTyping = FALSE]
       ELSE IF ~WsOpen(r)
       THEN IF r.connectionStateRef = "disconnected" THEN Connect(r) ELSE r
       ELSE IF ~hasConv
       THEN [r EXCEPT !.isTyping = TRUE, !.typingTimeoutRef = TRUE]
       ELSE r

SetSessionId(r, sid) == [r EXCEPT !.sessionIdRef = sid]

LoadConversation(r, sessId) ==
    LET r1 == [r EXCEPT !.sessionIdRef = sessId, !.error = "null", !.isTyping = FALSE]
    IN IF sessId # 0 /\ WsOpen(r1)
       THEN Connect(Disconnect([r1 EXCEPT !.storedSid = sessId]))
       ELSE r1

\* ------------------------------------------------------------------ timers
\* the reconnect timer in slot t fires: () => { connect(); }
ReconnectTimerFire(r, t) ==
    Connect([r EXCEPT !.timers[t] = 0,
                      !.reconnectTimeoutRef = IF @ = t THEN -1 ELSE @])

TypingTimerFire(r) == [r EXCEPT !.isTyping = FALSE, !.typingTimeoutRef = FALSE]

\* ------------------------------------------------------------------ frames
\* saveSessionId(sid)
SaveSessionId(r, sid) == [r EXCEPT !.sessionIdRef = sid, !.storedSid = sid]

\* handleMessage(data) for the frame kinds the connection manager depends on;
\* sid = 0 is a session_established frame without session_id
HandleMessage(r, kind, sid) ==
    CASE kind = "session_established" -> IF sid # 0 THEN SaveSessionId(r, sid) ELSE r
      [] kind = "chunk" -> [r EXCEPT !.isTyping = TRUE, !.typingTimeoutRef = TRUE]
      [] kind = "error" -> [r EXCEPT !.error = "set", !.isTyping = FALSE]
      [] OTHER -> r

\* ----------------------------------------------------------------- effects
TriBool(b) == IF b THEN "true" ELSE "false"

\* useEffect(..., [connectionState, getConnectionFailedFallbackMessage])
FallbackEffect(r) ==
    IF r.connectionState # "failed" \/ r.prevConnectionStateRef = "failed"
    THEN [r EXCEPT !.prevConnectionStateRef = r.connectionState]
    ELSE [r EXCEPT !.prevConnectionStateRef = r.connectionState, !.error = "null",
                   !.isTyping = FALSE, !.typingTimeoutRef = FALSE]

\* useEffect(..., [autoConnect, connectionState]); rendered is the connectionState
\* of the render the effect belongs to
AutoConnectEffect(r, rendered) ==
    IF r.previousAutoConnectRef = "null"
    THEN LET r1 == [r EXCEPT !.previousAutoConnectRef = TriBool(r.autoConnect)]
         IN IF r.autoConnect /\ rendered # "failed" /\ ~r.connectingRef /\ ~WsUsable(r)
            THEN Connect(r1) ELSE r1
    ELSE IF r.previousAutoConnectRef = TriBool(r.autoConnect) THEN r
    ELSE LET r1 == [r EXCEPT !.previousAutoConnectRef = TriBool(r.autoConnect)]
         IN IF r.autoConnect
            THEN IF ~r.connectingRef /\ ~WsUsable(r) THEN Connect(r1) ELSE r1
            ELSE Disconnect(r1)

\* the effects of one render, in the order the hook declares them
Effects(r) ==
    AutoConnectEffect(
        FallbackEffect([r EXCEPT !.connectionStateRef = r.connectionState]),
        r.connectionState)

EffectsDue(r) ==
    \/ r.connectionStateRef # r.connectionState
    \/ r.prevConnectionStateRef # r.connectionState
    \/ r.previousAutoConnectRef # TriBool(r.autoConnect)


\* ------------------------------------------------------- message protocol
\* Text is a sequence of tokens; a token stands for a piece of text that the
\* handler never splits: a word, a blank, or one of the texts it compares with.
BLANK == " "
GREETING == "Hello! How can I assist you today?"
NO_CONTENT == "No content provided"
SALES == "sales_requested"
SALES_UPPER == "SALES_REQUESTED"

\* String.prototype.length
RECURSIVE StrLen(_)
StrLen(s) ==
    IF s = <<>> THEN 0
    ELSE (CASE Head(s) = GREETING -> 34
            [] Head(s) = NO_CONTENT -> 19
            [] Head(s) \in {SALES, SALES_UPPER} -> 15
            [] OTHER -> 1) + StrLen(Tail(s))

\* String.prototype.trim
RECURSIVE TrimStart(_)
TrimStart(s) == IF s # <<>> /\ Head(s) = BLANK THEN TrimStart(Tail(s)) ELSE s
RECURSIVE TrimEnd(_)
TrimEnd(s) ==
    IF s # <<>> /\ s[Len(s)] = BLANK THEN TrimEnd(SubSeq(s, 1, Len(s) - 1)) ELSE s
Trim(s) == TrimEnd(TrimStart(s))

\* String.prototype.toLowerCase
ToLowerCase(s) == [i \in DOMAIN s |-> IF s[i] = SALES_UPPER THEN SALES ELSE s[i]]

\* String.prototype.startsWith
StartsWith(s, p) == Len(p) <= Len(s) /\ SubSeq(s, 1, Len(p)) = p

\* isInitialGreeting(content): the patterns and keyword tests all hold of a text
\* that contains the greeting sentence and of no other text of the model
isInitialGreeting(s) == \E i \in DOMAIN s : s[i] = GREETING

\* a || b on strings
OrElse(a, b) == IF a # <<>> THEN a ELSE b

\* filterMessage(raw, hasUserMessage): <<>> stands for null
filterMessage(raw, hasUserMessage) ==
    LET trimmed == Trim(raw) IN
    IF \/ trimmed = <<>>
       \/ trimmed = <<NO_CONTENT>>
       \/ trimmed = <<SALES>>
       \/ ToLowerCase(trimmed) = <<SALES>>
    THEN <<>>
    ELSE IF ~hasUserMessage /\ StrLen(trimmed) < 150 /\ isInitialGreeting(trimmed)
    THEN <<>>
    ELSE trimmed

\* a message of the transcript; tag is the suffix of its id, animateTyping is "true",
\* "false" or "absent"
Msg(role, content, tag) ==
    [role |-> role, type |-> role, content |-> content, tag |-> tag, animateTyping |-> "absent"]

\* variant of addAssistantMsg that puts the new message in the place of the last one
addAssistantMsgReplacesLast(x, content, idSuffix, animate) ==
    LET msg == [Msg("assistant", content, idSuffix) EXCEPT !.animateTyping = animate] IN
    [x EXCEPT !.messages = IF @ = <<>> THEN <<msg>> ELSE [@ EXCEPT ![Len(@)] = msg],
              !.renderPending = TRUE]

\* addAssistantMsg(setMessages, content, idSuffix, animate)
addAssistantMsg(x, content, idSuffix, animate) ==
    [x EXCEPT !.messages = Append(@, [Msg("assistant", content, idSuffix)
                                         EXCEPT !.animateTyping = animate]),
              !.renderPending = TRUE]

\* the user message that sendMessage() appends
AddUserMsg(x) ==
    [x EXCEPT !.messages = Append(@, Msg("user", <<"u">>, "")), !.renderPending = TRUE]

\* clearTypingTimeout(typingTimeoutRef)
clearTypingTimeout(x) == [x EXCEPT !.typingTimeoutRef = FALSE]

\* setCurrentResponse(""): takes effect in the next render, after the updates
\* queued before it
SetCurrentResponseEmpty(x) ==
    IF x.crQueue = <<>> /\ x.currentResponse = <<>> THEN [x EXCEPT !.renderPending = TRUE]
    ELSE IF x.crQueue # <<>> /\ x.crQueue[Len(x.crQueue)].k = "set"
    THEN [x EXCEPT !.renderPending = TRUE]
    ELSE [x EXCEPT !.crQueue = Append(@, [k |-> "set", text |-> <<>>, h |-> 0]),
                   !.renderPending = TRUE]

\* finalizeTyping(deps)
finalizeTyping(x) ==
    clearTypingTimeout(
        SetCurrentResponseEmpty([x EXCEPT !.isTyping = FALSE, !.status = "null"]))

\* the updater a chunk frame passes to setCurrentResponse, run with prev = the
\* current value of x.currentResponse; h is the socket whose handler queued it
\* (0 when that handler is gone)
ChunkUpdater(x, text, h) ==
    LET newContent == x.currentResponse \o text IN
    IF ~x.hasUserMessageRef /\ StrLen(newContent) < 100 /\ isInitialGreeting(newContent)
    THEN [x EXCEPT !.currentResponse = <<>>,
                   !.lastStreamedContent =
                       IF h = 0 THEN @ ELSE [@ EXCEPT ![h] = <<>>]]
    ELSE [x EXCEPT !.currentResponse = newContent,
                   !.lastStreamedContent =
                       IF h = 0 THEN @ ELSE [@ EXCEPT ![h] = newContent],
                   !.isTyping = TRUE,
                   !.typingTimeoutRef = TRUE]

\* the updater a structured_output frame passes to setCurrentResponse
FlushUpdater(x) ==
    LET x1 == IF x.currentResponse # <<>>
              THEN addAssistantMsg(x, x.currentResponse, "-streaming", "true")
              ELSE x
    IN [x1 EXCEPT !.currentResponse = <<>>]

RunUpdate(x, e) ==
    CASE e.k = "chunk" -> ChunkUpdater(x, e.text, e.h)
      [] e.k = "flush" -> FlushUpdater(x)
      [] OTHER -> [x EXCEPT !.currentResponse = <<>>]

\* an updater function is run right away when `eager` (nothing is queued on the
\* component and React computes the next state eagerly), else in the next render
QueueUpdate(x, e, eager) ==
    IF eager THEN [RunUpdate(x, e) EXCEPT !.renderPending = TRUE]
    ELSE [x EXCEPT !.crQueue = Append(@, e), !.renderPending = TRUE]

\* the render processes the queued updates of currentResponse in order
RECURSIVE ProcessQueue(_)
ProcessQueue(x) ==
    IF x.crQueue = <<>> THEN x
    ELSE ProcessQueue(RunUpdate([x EXCEPT !.crQueue = Tail(@)], Head(x.crQueue)))

\* a frame as ws.onmessage receives it: json = whether event.data parses; the
\* other fields are those of the parsed object (<<>> and 0 stand for absent)
FrameOf(json, type, text, message, err, conv, sid, approval) ==
    [json |-> json, type |-> type, text |-> text, message |-> message, error |-> err,
     conv |-> conv, sid |-> sid, approval |-> approval, tools |-> <<>>]

\* a tool_call frame whose function_content is the batch of descriptors
ToolCallFrame(batch) ==
    [FrameOf(TRUE, "tool_call", <<>>, <<>>, <<>>, 0, 0, FALSE) EXCEPT !.tools = batch]

\* deps.onToolCallRef of createMessageHandler(deps): connect() builds deps without
\* this member, so the handler reads undefined
onToolCallRef == "undefined"

\* the descriptor the handler makes of one entry of function_content: arguments is
\* "object", "json" (a string that parses), "unparseable" (a string that does not), or
\* "wrapped" (the meta-tool call_wordpress_tool around the tool `inner`)
Normalize(tc) ==
    CASE tc.arguments = "unparseable" -> [id |-> tc.id, name |-> tc.name, arguments |-> "empty"]
      [] tc.arguments = "wrapped" -> [id |-> tc.id, name |-> tc.inner, arguments |-> "object"]
      [] OTHER -> [id |-> tc.id, name |-> tc.name, arguments |-> "object"]

\* the dispatch at the end of the tool_call branch
DispatchToolCalls(x, f) ==
    IF onToolCallRef # "undefined" /\ Len(f.tools) > 0
    THEN [x EXCEPT !.dispatched = Append(@, [i \in 1..Len(f.tools) |-> Normalize(f.tools[i])])]
    ELSE x

NoFrame == FrameOf(TRUE, "-", <<>>, <<>>, <<>>, 0, 0, FALSE)

\* setConversationId(id); saveConversationId(id)
AdoptConversationId(x, f) ==
    IF f.conv # 0
    THEN [x EXCEPT !.conversationId = f.conv, !.storedConv = f.conv, !.renderPending = TRUE]
    ELSE x

\* variant of HandleTerminal that finalizes typing whether or not it found content
HandleTerminalAlwaysFinalizes(x, s, f) ==
    LET buffered == Trim(x.lastStreamedContent[s])
        x1 == SetCurrentResponseEmpty([x EXCEPT !.lastStreamedContent[s] = <<>>])
        skip == \/ buffered = <<NO_CONTENT>>
                \/ buffered = <<SALES>>
                \/ ToLowerCase(buffered) = <<SALES>>
                \/ (~x.hasUserMessageRef /\ StrLen(buffered) < 150
                    /\ isInitialGreeting(buffered))
        fromBuffer == buffered # <<>> /\ ~skip
        raw == filterMessage(f.message, x.hasUserMessageRef)
        flushed == x.flushedReasoningText[s]
        filtered == IF raw # <<>> /\ flushed # <<>> /\ StartsWith(raw, flushed)
                    THEN Trim(SubSeq(raw, Len(flushed) + 1, Len(raw)))
                    ELSE raw
        x2 == IF fromBuffer THEN addAssistantMsg(x1, buffered, "", "true")
              ELSE IF filtered # <<>> THEN addAssistantMsg(x1, filtered, "", "true")
              ELSE x1
    IN finalizeTyping([x2 EXCEPT !.flushedReasoningText[s] = <<>>])

\* handleMessage(data), the branch of message / complete
HandleTerminal(x, s, f) ==
    LET buffered == Trim(x.lastStreamedContent[s])
        x1 == SetCurrentResponseEmpty([x EXCEPT !.lastStreamedContent[s] = <<>>])
        skip == \/ buffered = <<NO_CONTENT>>
                \/ buffered = <<SALES>>
                \/ ToLowerCase(buffered) = <<SALES>>
                \/ (~x.hasUserMessageRef /\ StrLen(buffered) < 150
                    /\ isInitialGreeting(buffered))
        fromBuffer == buffered # <<>> /\ ~skip
        raw == filterMessage(f.message, x.hasUserMessageRef)
        flushed == x.flushedReasoningText[s]
        filtered == IF raw # <<>> /\ flushed # <<>> /\ StartsWith(raw, flushed)
                    THEN Trim(SubSeq(raw, Len(flushed) + 1, Len(raw)))
                    ELSE raw
        hasContent == fromBuffer \/ filtered # <<>>
        x2 == IF fromBuffer THEN addAssistantMsg(x1, buffered, "", "true")
              ELSE IF filtered # <<>> THEN addAssistantMsg(x1, filtered, "", "true")
              ELSE x1
        x3 == [x2 EXCEPT !.flushedReasoningText[s] = <<>>]
    IN IF hasContent THEN finalizeTyping(x3) ELSE x3

\* handleMessage(data), the branches that treat data.message as content
\* (handoff_request and the generic fallback)
HandleContent(x, f) ==
    LET filtered == filterMessage(f.message, x.hasUserMessageRef) IN
    IF filtered = <<>> THEN SetCurrentResponseEmpty(x)
    ELSE finalizeTyping(addAssistantMsg(x, filtered, "", "true"))

\* handleMessage(data), the branch of error
HandleError(x, s, f) ==
    SetCurrentResponseEmpty(
        [x EXCEPT !.error = "set",
                  !.errorValue = OrElse(f.message, OrElse(f.error, <<"An error occurred">>)),
                  !.isTyping = FALSE, !.status = "null", !.renderPending = TRUE])

\* variant of StoppedGuard that keeps only the check of the chunk branch
StoppedGuardChunksOnly(x, f) ==
    x.isStoppedRef /\ f.type \in {"streaming_chunk", "chunk"}

\* handleMessage(data): the stop guard at its top
StoppedGuard(x, f) == x.isStoppedRef /\ f.type # "session_established"

\* handleMessage(data) of the handler that connect() wired to socket s
handleMessage(x, s, f, eager) ==
    IF StoppedGuard(x, f) THEN x
    ELSE CASE f.type = "session_established" ->
                IF f.sid # 0 THEN SaveSessionId(x, f.sid) ELSE x
           [] f.type = "typing_start" ->
                clearTypingTimeout([x EXCEPT !.isTyping = TRUE, !.status = "typing_start",
                                             !.renderPending = TRUE])
           [] f.type = "typing_stop" ->
                clearTypingTimeout(
                    SetCurrentResponseEmpty([x EXCEPT !.isTyping = FALSE, !.status = "null"]))
           [] f.type \in {"streaming_chunk", "chunk"} ->
                LET content == OrElse(f.text, f.message) IN
                IF content # <<>>
                THEN QueueUpdate(x, [k |-> "chunk", text |-> content, h |-> s], eager)
                ELSE x
           [] f.type = "structured_output" ->
                IF f.approval THEN AdoptConversationId(x, f)
                ELSE LET filtered == filterMessage(f.message, x.hasUserMessageRef) IN
                     IF filtered = <<>> THEN x
                     ELSE finalizeTyping(
                              addAssistantMsg(
                                  QueueUpdate(x, [k |-> "flush", text |-> <<>>, h |-> 0], eager),
                                  filtered, "", "true"))
           [] f.type = "tool_call" ->
                LET reasoningText == Trim(x.lastStreamedContent[s])
                    x1 == SetCurrentResponseEmpty(
                              [x EXCEPT !.status = "tool_call",
                                        !.lastStreamedContent[s] = <<>>,
                                        !.flushedReasoningText[s] = reasoningText])
                    x2 == IF reasoningText # <<>>
                          THEN addAssistantMsg(x1, reasoningText, "-reasoning", "false")
                          ELSE x1
                IN DispatchToolCalls(clearTypingTimeout([x2 EXCEPT !.isTyping = TRUE]), f)
           [] f.type = "tool_result" ->
                AdoptConversationId([x EXCEPT !.status = "tool_result",
                                              !.renderPending = TRUE], f)
           [] f.type \in {"message", "complete"} -> HandleTerminal(x, s, f)
           [] f.type = "handoff_accept" ->
                [x EXCEPT !.status = "handoff_accept", !.renderPending = TRUE]
           [] f.type = "handoff_request" ->
                HandleContent([x EXCEPT !.status = "handoff_request",
                                        !.renderPending = TRUE], f)
           [] f.type = "error" -> HandleError(x, s, f)
           [] OTHER -> IF f.message # <<>> THEN HandleContent(x, f) ELSE x

\* variant of OnMessage that treats an undecodable frame as an error frame
OnMessageErrorOnBadJson(x, s, f, eager) ==
    IF ~f.json THEN HandleError(x, s, f) ELSE handleMessage(x, s, f, eager)

\* ws.onmessage: JSON.parse(event.data) throws on an undecodable payload and the
\* catch block only logs
OnMessage(x, s, f, eager) ==
    IF ~f.json THEN x ELSE handleMessage(x, s, f, eager)

\* =============================================================== chat store
\* src/src/utils/nfdAgents/storageUtils.js, src/src/constants/nfdAgents/storageKeys.js,
\* src/src/utils/nfdAgents/archiveConversation.js.  A stored string is modelled by the
\* value it is the JSON text of; an id is the one-element sequence of its number.
NumSites == 1        \* distinct site ids
NumStoreIds == 2     \* distinct session ids / conversation ids handed to the store
MaxStoreOps == 3     \* store operations in one run of the whole store
MaxArchiveOps == 4   \* archive operations in one run of the archive alone

\* options.maxHistoryItems ?? 3
DEFAULT_MAX_HISTORY_ITEMS == 3
Sites == 1..NumSites
\* the key prefixes: 0 = `nfd-ai-chat-${namespace}`, n = `nfd-ai-chat-${n}-${namespace}`
Scopes == 0..NumSites
StoreIds == 1..NumStoreIds
Suffixes == <<"history", "conversation-id", "session-id", "archive">>
Absent == [has |-> FALSE, v |-> <<>>]
Item(v) == [has |-> TRUE, v |-> v]
\* how the storage behaves during one operation: it works, setItem throws (quota),
\* or every access throws (privacy mode)
FailModes == {"none", "quota", "unavailable"}

Throws(s) == [st |-> s, ret |-> <<>>, raised |-> TRUE]
Done(s) == [st |-> s, ret |-> <<>>, raised |-> FALSE]
Ret(s, v) == [st |-> s, ret |-> v, raised |-> FALSE]
\* statement sequencing: an exception skips the rest of the block
Then(r, F(_)) == IF r.raised THEN r ELSE F(r.st)
\* try { ... } catch (err) { console.warn(...) } followed by `return fallback`
Catch(r, fallback) == IF r.raised THEN Ret(r.st, fallback) ELSE r

CanRead(f) == f # "unavailable"
setItem(s, scope, suffix, v, f) ==
    IF f = "none" THEN Done([s EXCEPT !.ls[scope][suffix] = Item(v)]) ELSE Throws(s)
removeItem(s, scope, suffix, f) ==
    IF f # "unavailable" THEN Done([s EXCEPT !.ls[scope][suffix] = Absent]) ELSE Throws(s)
\* localStorage.getItem(key) || null as an id, 0 = null
IdOf(item) == IF item.has THEN item.v[1] ELSE 0

\* a message the store is handed; timestamp is a Date ("date") or an ISO string ("iso")
\* of the instant t, animateTyping is "true", "false" or "absent"
StoreMsg(role, content, rep, t, anim) ==
    [role |-> role, type |-> role, content |-> content,
     timestamp |-> [rep |-> rep, t |-> t], animateTyping |-> anim]
\* JSON.stringify of a message: a Date becomes its ISO string
ToJSON(m) == [m EXCEPT !.timestamp = [rep |-> "iso", t |-> @.t]]
Stringify(msgs) == [i \in 1..Len(msgs) |-> ToJSON(msgs[i])]
\* { ...msg, timestamp: new Date(msg.timestamp), animateTyping: false }
Revive(m) == [m EXCEPT !.timestamp = [rep |-> "date", t |-> @.t], !.animateTyping = "false"]

\* hasMeaningfulUserMessage without the trim()
hasUserMessageUntrimmed(msgs) ==
    \E i \in 1..Len(msgs) :
        /\ msgs[i].role = "user" \/ msgs[i].type = "user"
        /\ msgs[i].content # <<>>

hasMeaningfulUserMessage(msgs) ==
    \E i \in 1..Len(msgs) :
        /\ msgs[i].role = "user" \/ msgs[i].type = "user"
        /\ msgs[i].content # <<>>
        /\ Trim(msgs[i].content) # <<>>

EmptyChat == [messages |-> <<>>, conversationId |-> 0, sessionId |-> 0]
restoreChatTry(s, scope, f) ==
    IF ~CanRead(f) THEN Throws(s)
    ELSE LET storedMessages == s.ls[scope]["history"] IN
         IF storedMessages.has /\ Len(storedMessages.v) > 0
         THEN Ret(s, [messages |-> [i \in 1..Len(storedMessages.v) |-> Revive(storedMessages.v[i])],
                      conversationId |-> IdOf(s.ls[scope]["conversation-id"]),
                      sessionId |-> IdOf(s.ls[scope]["session-id"])])
         ELSE Ret(s, EmptyChat)
restoreChat(s, scope, f) == Catch(restoreChatTry(s, scope, f), EmptyChat)

persistMessagesTry(s, scope, msgs, f) ==
    IF hasMeaningfulUserMessage(msgs)
    THEN setItem(s, scope, "history", Stringify(msgs), f)
    ELSE removeItem(s, scope, "history", f)
persistMessages(s, scope, msgs, f) == Catch(persistMessagesTry(s, scope, msgs, f), <<>>)

persistConversationId(s, scope, id, f) ==
    Catch(IF id # 0 THEN setItem(s, scope, "conversation-id", <<id>>, f)
          ELSE removeItem(s, scope, "conversation-id", f), <<>>)

\* the hook's saveSessionId(sid), the only writer of the session-id key
saveSessionIdKey(s, scope, id, f) == Catch(setItem(s, scope, "session-id", <<id>>, f), <<>>)

clearChatStorage(s, scope, f) ==
    Catch(Then(Then(removeItem(s, scope, "history", f),
                    LAMBDA t : removeItem(t, scope, "conversation-id", f)),
               LAMBDA t : removeItem(t, scope, "session-id", f)), <<>>)

getSiteIdTry(s, f) == IF CanRead(f) THEN Ret(s, s.site) ELSE Throws(s)
getSiteId(s, f) == Catch(getSiteIdTry(s, f), 0)
setSiteId(s, id, f) == Catch(IF f = "none" THEN Done([s EXCEPT !.site = id]) ELSE Throws(s), <<>>)
\* the prefix getChatHistoryStorageKeys() builds its four keys with
getChatHistoryStorageKeys(s, f) == getSiteId(s, f).ret

\* the loop body without the test of the new key
MigrateSuffixOverwrite(s, suffix, old, new, f) ==
    IF ~CanRead(f) THEN Throws(s)
    ELSE LET oldData == s.ls[old][suffix] IN
         IF ~oldData.has THEN Done(s)
         ELSE Then(setItem(s, new, suffix, oldData.v, f),
                   LAMBDA t : removeItem(t, old, suffix, f))
\* one pass of the loop of migrateStorageKeys
MigrateSuffix(s, suffix, old, new, f) ==
    IF ~CanRead(f) THEN Throws(s)
    ELSE LET oldData == s.ls[old][suffix] IN
         IF ~oldData.has THEN Done(s)
         ELSE Then(IF ~s.ls[new][suffix].has
                   THEN setItem(s, new, suffix, oldData.v, f)
                   ELSE Done(s),
                   LAMBDA t : removeItem(t, old, suffix, f))
RECURSIVE MigrateFrom(_, _, _, _, _)
MigrateFrom(r, i, old, new, f) ==
    IF i > Len(Suffixes) \/ r.raised THEN r
    ELSE MigrateFrom(MigrateSuffix(r.st, Suffixes[i], old, new, f), i + 1, old, new, f)
migrateStorageKeys(s, old, new, f) == Catch(MigrateFrom(Done(s), 1, old, new, f), <<>>)

Take(q, n) == SubSeq(q, 1, IF Len(q) < n THEN Len(q) ELSE n)
ArchiveOf(s, scope) == IF s.ls[scope]["archive"].has THEN s.ls[scope]["archive"].v ELSE <<>>
\* no entry is taken out before the new one is put in front
FilteredNothing(archive, sess, conv) == archive
\* the entries archiveConversation() keeps before it puts the new one in front
Filtered(archive, sess, conv) ==
    IF conv # 0
    THEN SelectSeq(archive, LAMBDA e : e.conversationId # conv)
    ELSE SelectSeq(archive, LAMBDA e : e.sessionId # sess)
archiveConversationTry(s, msgs, sess, conv, k, f, now) ==
    IF ~CanRead(f) THEN Throws(s)
    ELSE LET scope == getChatHistoryStorageKeys(s, f)
             newEntry == [sessionId |-> sess, conversationId |-> conv,
                          messages |-> Stringify(msgs), archivedAt |-> now]
         IN  setItem(s, scope, "archive",
                     Take(<<newEntry>> \o Filtered(ArchiveOf(s, scope), sess, conv), k), f)
\* archiveConversation without the guard on the two ids
archiveConversationAnyIds(s, msgs, sess, conv, k, f, now) ==
    IF msgs = <<>> THEN Done(s)
    ELSE IF ~hasMeaningfulUserMessage(msgs) THEN Done(s)
    ELSE Catch(archiveConversationTry(s, msgs, sess, conv, k, f, now), <<>>)

archiveConversation(s, msgs, sess, conv, k, f, now) ==
    IF msgs = <<>> THEN Done(s)
    ELSE IF ~hasMeaningfulUserMessage(msgs) THEN Done(s)
    ELSE IF sess = 0 /\ conv = 0 THEN Done(s)
    ELSE Catch(archiveConversationTry(s, msgs, sess, conv, k, f, now), <<>>)

removeConversationFromArchive(s, conv, sess, f) ==
    Catch(IF ~CanRead(f) THEN Throws(s)
          ELSE LET scope == getChatHistoryStorageKeys(s, f)
                   archive == ArchiveOf(s, scope)
                   filtered == SelectSeq(archive, LAMBDA e :
                                   e.conversationId # conv \/ e.sessionId # sess)
               IN  IF Len(filtered) # Len(archive)
                   THEN setItem(s, scope, "archive", filtered, f)
                   ELSE Done(s), <<>>)

\* the store as one record
Store == [ls |-> ls, site |-> lsSiteId]
NoStoreOp == [op |-> "none", scope |-> 0, old |-> 0, msgs |-> <<>>, sess |-> 0, conv |-> 0,
              fail |-> "none", ret |-> <<>>, raised |-> FALSE, prev |-> "none", changed |-> {}]
\* a browser with none of the chat's keys
StoreInitial ==
    /\ ls = [sc \in Scopes |-> [x \in {"history", "conversation-id", "session-id", "archive"} |-> Absent]]
    /\ lsSiteId = 0
    /\ keyScopes = [render |-> 0, handler |-> -1]
    /\ slast = NoStoreOp
    /\ archLog = <<>>
    /\ archOnly = TRUE
    /\ clock = 0
    /\ migratedConn = FALSE

\* ------------------------------------------------ the hook, message part
\* the text of the locally generated fallback: getConnectionFailedFallbackMessage(m)
\* when the consumer supplied it, else the default sentence
FALLBACK == "Sorry, we couldn't connect. Please try again later or contact support."
FallbackMsg == Msg("assistant", <<FALLBACK>>, "-fallback")

\* sendMessage(message, convId): isFailed
SendIsFailed(x) ==
    \/ x.connectionStateRef = "failed"
    \/ (x.reconnectAttempts >= MAX_RECONNECT_ATTEMPTS /\ ~WsOpen(x))

\* sendMessage(message, convId) reaches wsRef.current.send(...)
SendsPayload(x, hasConv) == ~(SendIsFailed(x) /\ ~hasConv) /\ WsOpen(x)

\* sendMessage(message, convId): what it does to the flags, the transcript, the
\* buffer and the status (SendMessage is the rest of it)
SendMessageTranscript(x, hasConv) ==
    LET x0 == [x EXCEPT !.isStoppedRef = FALSE, !.hasUserMessageRef = TRUE] IN
    IF SendIsFailed(x) /\ ~hasConv
    THEN SetCurrentResponseEmpty(
             [x0 EXCEPT !.messages = @ \o <<Msg("user", <<"u">>, ""), FallbackMsg>>,
                        !.status = "null", !.renderPending = TRUE])
    ELSE IF ~WsOpen(x)
    THEN IF ~hasConv THEN AddUserMsg(x0) ELSE x0
    ELSE IF ~hasConv THEN SetCurrentResponseEmpty(AddUserMsg(x0))
    ELSE x0

sendMessage(x, hasConv) == SendMessage(SendMessageTranscript(x, hasConv), hasConv)

stopRequest(x) ==
    clearTypingTimeout(
        SetCurrentResponseEmpty(
            [x EXCEPT !.isStoppedRef = TRUE, !.isTyping = FALSE, !.status = "null"]))

\* ws.onopen, all of it
OnOpenFull(x) ==
    SetCurrentResponseEmpty(
        [OnOpen(x) EXCEPT !.hasUserMessageRef = x.messagesRef > 0,
                          !.isStoppedRef = FALSE])

\* ws.onclose, all of it
OnCloseFull(x, s, code) == [OnClose(x, s, code) EXCEPT !.status = "null"]

\* the connection-failed fallback effect: what it does to the transcript, the
\* buffer and the status (FallbackEffect is the rest of it)
FallbackTranscript(x) ==
    IF x.connectionState # "failed" \/ x.prevConnectionStateRef = "failed" THEN x
    ELSE SetCurrentResponseEmpty(
             [x EXCEPT !.messages = Append(@, FallbackMsg), !.status = "null",
                       !.renderPending = TRUE])

\* the effect that persists messages; it runs at the mount and when messages changed
\* (msgs is the transcript of this render)
PersistMessagesEffect(x, msgs, isInitialMount, changed) ==
    IF isInitialMount
    THEN IF Len(msgs) > 0 /\ hasMeaningfulUserMessage(msgs)
         THEN [x EXCEPT !.storedHistory = Item(msgs)]
         ELSE x
    ELSE IF changed
    THEN [x EXCEPT !.storedHistory =
            IF hasMeaningfulUserMessage(msgs) THEN Item(msgs) ELSE Absent]
    ELSE x

\* the effect that persists the conversation id; it runs at the mount and when
\* conversationId changed, and storedConv differs from conversationId at no other time
PersistConversationIdEffect(x) == [x EXCEPT !.storedConv = x.conversationId]

\* F(v), with v computed once
Once(v, F(_)) == CHOOSE r \in {F(w) : w \in {v}} : TRUE

\* a render and the effects that follow it: the queued updates of
\* currentResponse, messagesRef, then the effects in the order the hook declares them
Render(x) ==
    Once([ProcessQueue(x) EXCEPT !.renderPending = FALSE], LAMBDA x1 :
    Once(FallbackTranscript([x1 EXCEPT !.messagesRef = Len(x1.messages)]), LAMBDA x2 :
    Once(Effects(x2), LAMBDA x3 :
        PersistConversationIdEffect(
            PersistMessagesEffect(x3, x1.messages,
                                  x.previousAutoConnectRef = "null",
                                  Len(x1.messages) # x.messagesRef)))))

RenderDue(x) ==
    x.renderPending \/ x.crQueue # <<>> \/ x.messagesRef # Len(x.messages) \/ EffectsDue(x)

\* createMessageHandler(...) in connect(): the handler of a new socket starts
\* with empty closure variables; updaters queued by the handler that had the
\* slot before no longer reach a live handler.  setError(null) empties the value.
Settle(x0, x1) ==
    LET new == {s \in Slots : x0.socks[s] = "NONE" /\ x1.socks[s] = "CONNECTING"}
        x2 == [x1 EXCEPT
                 !.lastStreamedContent = [s \in Slots |-> IF s \in new THEN <<>> ELSE @[s]],
                 !.flushedReasoningText = [s \in Slots |-> IF s \in new THEN <<>> ELSE @[s]],
                 !.crQueue = IF @ = <<>> THEN <<>>
                             ELSE [i \in DOMAIN @ |->
                                     IF @[i].h \in new THEN [@[i] EXCEPT !.h = 0] ELSE @[i]],
                 !.errorValue = IF x1.error = "null" THEN <<>> ELSE @]
    IN [x2 EXCEPT !.renderPending =
            \/ @
            \/ x1.connectionState # x0.connectionState
            \/ x1.retryAttempt # x0.retryAttempt
            \/ x1.error # x0.error
            \/ x1.isTyping # x0.isTyping]

\* --------------------------------------------------------- history helpers
NewSock(r) == \E s \in Slots : socks[s] = "NONE" /\ r.socks[s] = "CONNECTING"
NewTimers(r) == {t \in TimerSlots : timers[t] = 0 /\ r.timers[t] # 0}
Mounted == previousAutoConnectRef # "null"
Idle == Mounted /\ pendingClose = 0
CallerOps == {"setAutoConnect", "connect", "manualRetry", "disconnect", "clearChatHistory",
              "sendMessage", "setSessionId", "loadConversation"}
MayCall == Idle /\ calls < MaxCalls

\* op: the handler that ran; code: its close code or session id, or the slot of the
\* socket clearChatHistory() closed (0 if none);
\* guarded: connect() was invoked and returned at its guards; from: connectionState
\* before a manualRetry()
Rec(op, code, guarded) ==
    [op |-> op, code |-> code, guarded |-> guarded,
     from |-> IF op = "manualRetry" THEN connectionState ELSE "-"]

\* r: resulting program state; run, disc, base: new values of abnormalRun,
\* discSince and sidBase before the socket creation of this step is recorded
Step(r, rec, run, disc, base) ==
    /\ Apply(r)
    /\ last' = rec
    /\ calls' = IF rec.op \in CallerOps THEN calls + 1 ELSE calls
    /\ abnormalRun' = run
    /\ lastDelay' = IF run = 0 THEN 0
                    ELSE IF NewTimers(r) # {}
                    THEN r.timers[CHOOSE t \in NewTimers(r) : TRUE]
                    ELSE lastDelay
    /\ discSince' = disc
    /\ sidBase' = IF NewSock(r) /\ base = 0 THEN r.sessionIdRef ELSE base
    /\ lastUrlSid' = IF NewSock(r) THEN r.sessionIdRef ELSE lastUrlSid
    /\ UNCHANGED <<msgVars, msgHistVars, storeVars>>

\* -------------------------------------------------------------------- Init
\* the lazy initialisers of messages, conversationId and sessionIdRef: the stored chat
\* when autoLoadHistory is set and the history key holds messages, else the empty chat
InitialChat(autoLoadHistory, history, conv, sid) ==
    IF autoLoadHistory /\ history.has /\ Len(history.v) > 0
    THEN [messages |-> history.v, conversationId |-> conv, sessionId |-> sid]
    ELSE EmptyChat

\* the message state of a hook constructed with the chat the initialisers returned
MsgMounted(chat) ==
    /\ messages = chat.messages
    /\ currentResponse = <<>>
    /\ crQueue = <<>>
    /\ conversationId = chat.conversationId
    /\ status = "null"
    /\ errorValue = <<>>
    /\ messagesRef = Len(chat.messages)
    /\ isStoppedRef = FALSE
    /\ hasUserMessageRef = FALSE
    /\ lastStreamedContent = [s \in Slots |-> <<>>]
    /\ flushedReasoningText = [s \in Slots |-> <<>>]
    /\ dispatched = <<>>
    /\ renderPending = FALSE
    /\ mlast = [op |-> "init", f |-> NoFrame, s |-> 0, flag |-> FALSE, sent |-> FALSE]
    /\ turn = 0
    /\ turnChunks = <<>>
    /\ stoppedTurn = 0
    /\ frames = 0
    /\ drops = 0
    /\ stops = 0

\* the message state of a hook constructed with no history in storage
MsgInitial ==
    /\ storedConv = 0
    /\ storedHistory = Absent
    /\ MsgMounted(InitialChat(TRUE, storedHistory, storedConv, storedSid))

ConnInitial ==
    /\ wsRef = 0
    /\ connectingRef = FALSE
    /\ configRef = "null"
    /\ reconnectAttempts = 0
    /\ reconnectTimeoutRef = 0
    /\ typingTimeoutRef = FALSE
    /\ storedSid \in {0} \cup ServerSids
    /\ sessionIdRef \in {0, storedSid}
    /\ failedFlag \in BOOLEAN
    /\ connectionState = IF failedFlag THEN "failed" ELSE "disconnected"
    /\ connectionStateRef = connectionState
    /\ prevConnectionStateRef = connectionState
    /\ previousAutoConnectRef = "null"
    /\ retryAttempt = 0
    /\ error = "null"
    /\ isTyping = FALSE
    /\ autoConnect \in BOOLEAN
    /\ socks = [s \in Slots |-> "NONE"]
    /\ pendingClose = 0
    /\ timers = [t \in TimerSlots |-> 0]
    /\ fetching = 0
    /\ genCount = 0
    /\ last = [op |-> "init", code |-> 0, guarded |-> FALSE, from |-> "-"]
    /\ calls = 0
    /\ abnormalRun = 0
    /\ lastDelay = 0
    /\ discSince = FALSE
    /\ sidBase = 0
    /\ lastUrlSid = 0

Init ==
    /\ ConnInitial
    /\ MsgInitial
    /\ StoreInitial

\* ----------------------------------------------------------------- actions
\* the effects that follow a render (the first run is the mount)
RunEffects ==
    /\ pendingClose = 0
    /\ EffectsDue(St)
    /\ Step(Effects(St), Rec("effects", 0, FALSE), abnormalRun, discSince, sidBase)

\* the parent re-renders the hook with another autoConnect
SetAutoConnect ==
    /\ MayCall
    /\ Step([St EXCEPT !.autoConnect = ~autoConnect], Rec("setAutoConnect", 0, FALSE),
            abnormalRun, FALSE, sidBase)

CallConnect ==
    /\ MayCall
    /\ Step(Connect(St), Rec("connect", 0, ConnectGuarded(St)), abnormalRun, FALSE, sidBase)

CallManualRetry ==
    /\ MayCall
    /\ Step(ManualRetry(St), Rec("manualRetry", 0, ConnectGuarded(St)), 0, FALSE, sidBase)

CallDisconnect ==
    /\ MayCall
    /\ Step(Disconnect(St), Rec("disconnect", 0, FALSE), abnormalRun, TRUE, sidBase)

CallClearChatHistory ==
    /\ MayCall
    /\ Step(ClearChatHistory(St), Rec("clearChatHistory", wsRef, FALSE), 0, discSince, 0)

CallSendMessage ==
    /\ MayCall
    /\ \E hasConv \in BOOLEAN :
         Step(SendMessage(St, hasConv), Rec("sendMessage", 0, FALSE),
              abnormalRun, FALSE, sidBase)

CallSetSessionId ==
    /\ MayCall
    /\ \E sid \in {0} \cup ServerSids :
         Step(SetSessionId(St, sid), Rec("setSessionId", sid, FALSE),
              abnormalRun, discSince, 0)

CallLoadConversation ==
    /\ MayCall
    /\ \E sid \in {0} \cup ServerSids :
         Step(LoadConversation(St, sid), Rec("loadConversation", sid, FALSE),
              abnormalRun, FALSE, 0)

\* fetchAgentConfig settles and a suspended connect() resumes
ConfigResolved ==
    /\ Idle
    /\ fetching > 0
    /\ \E res \in {"ok", "null", "throw"} :
         Step(ConnectResume(St, res),
              Rec(IF res = "ok" THEN "configOk" ELSE "configFail", 0, FALSE),
              abnormalRun, discSince, sidBase)

SockOpen ==
    /\ Idle
    /\ \E s \in Slots :
         /\ socks[s] = "CONNECTING"
         /\ Step(OnOpen([St EXCEPT !.socks[s] = "OPEN"]), Rec("onopen", 0, FALSE),
                 0, discSince, sidBase)

\* the connection of socket s fails: its error event, and its close event is due
SockError ==
    /\ Idle
    /\ \E s \in Slots :
         /\ socks[s] \in {"CONNECTING", "ABORTED", "OPEN", "CLOSING"}
         /\ Step(OnError([St EXCEPT !.socks[s] = "CLOSED", !.pendingClose = s]),
                 Rec("onerror", 0, FALSE), abnormalRun, discSince, sidBase)

\* the close event of socket s: after its error event with an abnormal code, or
\* the end of a closing handshake with any code
SockClose ==
    /\ Mounted
    /\ \E s \in Slots, code \in CloseCodes :
         /\ \/ pendingClose = s /\ code # NORMAL_CLOSE
            \/ pendingClose = 0 /\ socks[s] \in {"OPEN", "CLOSING"}
         /\ Step(OnClose([St EXCEPT !.socks[s] = "NONE", !.pendingClose = 0], s, code),
                 Rec("onclose", code, FALSE),
                 IF code = NORMAL_CLOSE THEN abnormalRun
                 ELSE IF abnormalRun < MaxRun THEN abnormalRun + 1 ELSE MaxRun,
                 discSince, sidBase)

\* a frame arrives on an open socket
Frame ==
    /\ Idle
    /\ \E s \in Slots :
         /\ socks[s] = "OPEN"
         /\ \/ \E sid \in {0} \cup ServerSids :
                 Step(HandleMessage(St, "session_established", sid),
                      Rec("session_established", sid, FALSE), abnormalRun, discSince,
                      IF sid # 0 THEN sid ELSE sidBase)
            \/ \E kind \in {"chunk", "error"} :
                 Step(HandleMessage(St, kind, 0), Rec(kind, 0, FALSE),
                      abnormalRun, discSince, sidBase)

ReconnectTimer ==
    /\ Idle
    /\ \E t \in TimerSlots :
         /\ timers[t] # 0
         /\ Step(ReconnectTimerFire(St, t), Rec("timer", 0, ConnectGuarded(St)),
                 abnormalRun, discSince, sidBase)

TypingTimer ==
    /\ Idle
    /\ typingTimeoutRef
    /\ Step(TypingTimerFire(St), Rec("typingTimer", 0, FALSE),
            abnormalRun, discSince, sidBase)

Next ==
    \/ RunEffects
    \/ SetAutoConnect
    \/ CallConnect
    \/ CallManualRetry
    \/ CallDisconnect
    \/ CallClearChatHistory
    \/ CallSendMessage
    \/ CallSetSessionId
    \/ CallLoadConversation
    \/ ConfigResolved
    \/ SockOpen
    \/ SockError
    \/ SockClose
    \/ Frame
    \/ ReconnectTimer
    \/ TypingTimer

Spec == Init /\ [][Next]_vars

TypeOK ==
    /\ wsRef \in {0} \cup Slots
    /\ connectionState \in ConnStates
    /\ reconnectAttempts \in 0..MAX_RECONNECT_ATTEMPTS
    /\ fetching \in 0..MaxFetch


\* =================================================== the message protocol
\* The same hook with its transcript, streaming buffer and flags, driven by
\* sendMessage(), stopRequest(), the frames of the server and the renders.
MaxSends == 2        \* sendMessage() calls in one run
MaxStops == 1        \* stopRequest() calls in one run
MaxFrames == 3       \* frames the server sends in one run
MaxDrops == 1        \* sockets that fail or are closed by the server in one run
MaxInputs == 5       \* calls, frames and socket failures in one run, together
NumConvIds == 1      \* distinct conversation ids the server can supply

ConvIds == 1..NumConvIds

\* the word the server streams after t calls of sendMessage() or stopRequest()
Word(t) == <<"w0", "w1", "w2", "w3", "w4", "w5", "w6">>[t + 1]

ChunkTexts(t) == {<<>>, <<Word(t)>>, <<BLANK, "x">>}
FinalTexts == {<<>>, <<"m">>}

Frames(t) ==
    {FrameOf(FALSE, "-", <<>>, <<>>, <<>>, 0, 0, FALSE)}
    \cup {FrameOf(TRUE, "session_established", <<>>, <<>>, <<>>, 0, sid, FALSE) :
            sid \in {0} \cup ServerSids}
    \cup {FrameOf(TRUE, ty, <<>>, <<>>, <<>>, 0, 0, FALSE) : ty \in {"typing_start", "tool_call"}}
    \cup {FrameOf(TRUE, "streaming_chunk", tx, <<>>, <<>>, 0, 0, FALSE) : tx \in ChunkTexts(t)}
    \cup {FrameOf(TRUE, "structured_output", <<>>, <<>>, <<>>, c, 0, TRUE) : c \in ConvIds}
    \cup {FrameOf(TRUE, "tool_result", <<>>, <<>>, <<>>, c, 0, FALSE) : c \in ConvIds}
    \cup {FrameOf(TRUE, "complete", <<>>, m, <<>>, 0, 0, FALSE) : m \in FinalTexts}
    \cup {FrameOf(TRUE, "message", <<>>, <<"m">>, <<>>, c, 0, FALSE) : c \in ConvIds}
    \cup {FrameOf(TRUE, "error", <<>>, <<"e1">>, <<>>, 0, 0, FALSE)}

\* the message state as a record, and the whole state of the hook
Ms ==
    [messages |-> messages, currentResponse |-> currentResponse, crQueue |-> crQueue,
     conversationId |-> conversationId, status |-> status, errorValue |-> errorValue,
     messagesRef |-> messagesRef, isStoppedRef |-> isStoppedRef,
     hasUserMessageRef |-> hasUserMessageRef,
     lastStreamedContent |-> lastStreamedContent,
     flushedReasoningText |-> flushedReasoningText, storedConv |-> storedConv,
     storedHistory |-> storedHistory, dispatched |-> dispatched,
     renderPending |-> renderPending]
Hook == St @@ Ms

MsgApply(x) ==
    /\ Apply(x)
    /\ messages' = x.messages
    /\ currentResponse' = x.currentResponse
    /\ crQueue' = x.crQueue
    /\ conversationId' = x.conversationId
    /\ status' = x.status
    /\ errorValue' = x.errorValue
    /\ messagesRef' = x.messagesRef
    /\ isStoppedRef' = x.isStoppedRef
    /\ hasUserMessageRef' = x.hasUserMessageRef
    /\ lastStreamedContent' = x.lastStreamedContent
    /\ flushedReasoningText' = x.flushedReasoningText
    /\ storedConv' = x.storedConv
    /\ storedHistory' = x.storedHistory
    /\ dispatched' = x.dispatched
    /\ renderPending' = x.renderPending

\* op: the handler that ran; f: its frame; s: its socket; flag: convId was
\* passed (sendMessage) or the updater ran eagerly (frame); sent: a payload went
\* out on the socket
MsgRec(op, f, s, flag, sent) == [op |-> op, f |-> f, s |-> s, flag |-> flag, sent |-> sent]

MsgStep(x, rec) ==
    /\ \E x1 \in {x} : \E x2 \in {Settle(Hook, x1)} : MsgApply(x2)
    /\ mlast' = rec
    /\ UNCHANGED <<histVars, storeVars>>

\* the typing-inactivity timer fires, all of its callback
TypingTimerFull(x) == [TypingTimerFire(x) EXCEPT !.status = "null"]

\* the run has room for one more call, frame or socket failure
MoreInput == turn + stops + frames + drops < MaxInputs

\* a chunk frame that the handler looks at
ChunkSeen(f) == f.json /\ f.type \in {"streaming_chunk", "chunk"} /\ ~isStoppedRef

\* a frame at which the handler resets the streaming buffer
ClearsBuffer(f) ==
    /\ f.json
    /\ ~isStoppedRef
    /\ f.type \notin {"session_established", "typing_start", "tool_result", "handoff_accept"}

MsgInit == Init /\ storedSid = 0

MsgRender ==
    /\ pendingClose = 0
    /\ \E h \in {Hook} :
         IF RenderDue(h)
         THEN MsgStep(Render(h), MsgRec("render", NoFrame, 0, FALSE, FALSE))
         ELSE FALSE
    /\ UNCHANGED <<turn, turnChunks, stoppedTurn, frames, drops, stops>>

MsgSendMessage ==
    /\ Idle
    /\ turn < MaxSends /\ MoreInput
    /\ \E hasConv \in BOOLEAN :
         MsgStep(sendMessage(Hook, hasConv),
                 MsgRec("sendMessage", NoFrame, 0, hasConv, SendsPayload(Hook, hasConv)))
    /\ turn' = turn + 1
    /\ turnChunks' = IF mlast'.flag THEN turnChunks ELSE <<>>
    /\ UNCHANGED <<stoppedTurn, frames, drops, stops>>

MsgStopRequest ==
    /\ Idle
    /\ stops < MaxStops /\ MoreInput
    /\ MsgStep(stopRequest(Hook), MsgRec("stopRequest", NoFrame, 0, FALSE, FALSE))
    /\ stops' = stops + 1
    /\ stoppedTurn' = turn
    /\ turnChunks' = <<>>
    /\ UNCHANGED <<turn, frames, drops>>

MsgConfigResolved ==
    /\ Idle
    /\ fetching > 0
    /\ \E res \in {"ok", "throw"} :
         MsgStep(ConnectResume(Hook, res),
                 MsgRec(IF res = "ok" THEN "configOk" ELSE "configFail", NoFrame, 0,
                        FALSE, FALSE))
    /\ UNCHANGED <<turn, turnChunks, stoppedTurn, frames, drops, stops>>

MsgSockOpen ==
    /\ Idle
    /\ \E s \in Slots :
         /\ socks[s] = "CONNECTING"
         /\ MsgStep(OnOpenFull([Hook EXCEPT !.socks[s] = "OPEN"]),
                    MsgRec("onopen", NoFrame, s, FALSE, FALSE))
    /\ turnChunks' = <<>>
    /\ UNCHANGED <<turn, stoppedTurn, frames, drops, stops>>

MsgSockError ==
    /\ Idle
    /\ drops < MaxDrops /\ MoreInput
    /\ \E s \in Slots :
         /\ socks[s] \in {"CONNECTING", "OPEN"}
         /\ MsgStep(OnError([Hook EXCEPT !.socks[s] = "CLOSED", !.pendingClose = s]),
                    MsgRec("onerror", NoFrame, s, FALSE, FALSE))
    /\ drops' = drops + 1
    /\ turnChunks' = <<>>
    /\ UNCHANGED <<turn, stoppedTurn, frames, stops>>

MsgSockClose ==
    /\ Mounted
    /\ \E s \in Slots, code \in CloseCodes :
         /\ \/ pendingClose = s /\ code # NORMAL_CLOSE /\ drops' = drops
            \/ pendingClose = 0 /\ socks[s] = "OPEN" /\ drops < MaxDrops /\ MoreInput
               /\ drops' = drops + 1
         /\ MsgStep(OnCloseFull([Hook EXCEPT !.socks[s] = "NONE", !.pendingClose = 0],
                                s, code),
                    MsgRec("onclose", NoFrame, s, code = NORMAL_CLOSE, FALSE))
    /\ turnChunks' = <<>>
    /\ UNCHANGED <<turn, stoppedTurn, frames, stops>>

\* the server sends a frame of the alphabet
FrameFrom(alphabet, max) ==
    /\ Idle
    /\ frames < max /\ MoreInput
    /\ \E s \in Slots, f \in alphabet, eager \in BOOLEAN :
         /\ socks[s] = "OPEN"
         /\ eager => (/\ ~renderPending
                      /\ crQueue = <<>>
                      /\ f.type \in {"streaming_chunk", "chunk", "structured_output"})
         /\ MsgStep(OnMessage(Hook, s, f, eager), MsgRec("frame", f, s, eager, FALSE))
         /\ turnChunks' = IF ChunkSeen(f) THEN turnChunks \o OrElse(f.text, f.message)
                          ELSE IF ClearsBuffer(f) THEN <<>>
                          ELSE turnChunks
    /\ frames' = frames + 1
    /\ UNCHANGED <<turn, stoppedTurn, drops, stops>>

MsgFrame == FrameFrom(Frames(turn + stops), MaxFrames)

MsgReconnectTimer ==
    /\ Idle
    /\ \E t \in TimerSlots :
         /\ timers[t] # 0
         /\ MsgStep(ReconnectTimerFire(Hook, t), MsgRec("timer", NoFrame, 0, FALSE, FALSE))
    /\ UNCHANGED <<turn, turnChunks, stoppedTurn, frames, drops, stops>>

MsgTypingTimer ==
    /\ Idle
    /\ typingTimeoutRef
    /\ MsgStep(TypingTimerFull(Hook), MsgRec("typingTimer", NoFrame, 0, FALSE, FALSE))
    /\ UNCHANGED <<turn, turnChunks, stoppedTurn, frames, drops, stops>>

MsgNext ==
    \/ MsgRender
    \/ MsgSendMessage
    \/ MsgStopRequest
    \/ MsgConfigResolved
    \/ MsgSockOpen
    \/ MsgSockError
    \/ MsgSockClose
    \/ MsgFrame
    \/ MsgReconnectTimer
    \/ MsgTypingTimer

MsgSpec == MsgInit /\ [][MsgNext]_vars

\* the typing-inactivity timer fires 60 s after it was armed and React renders
\* what is pending; nothing obliges the user, the server or the network to act
MsgLive == MsgInit /\ [][MsgNext]_vars /\ WF_vars(MsgTypingTimer) /\ WF_vars(MsgRender)

MsgTypeOK ==
    /\ isStoppedRef \in BOOLEAN
    /\ conversationId \in {0} \cup ConvIds
    /\ error = "null" <=> errorValue = <<>>


\* ------------------------------------------------------------ observations
NewSockStep == \E s \in Slots : socks[s] = "NONE" /\ socks'[s] = "CONNECTING"
NewTimerStep == {t \in TimerSlots : timers[t] = 0 /\ timers'[t] # 0}
NoTimerPending == \A t \in TimerSlots : timers[t] = 0
InFlight == fetching + Cardinality({s \in Slots : socks[s] = "CONNECTING"})
AbnormalClose == last.op = "onclose" /\ last.code # NORMAL_CLOSE

\* C1: a connect() that starts while another connect() is resolving config, or
\* while the current socket is connecting or open, neither calls the Config
\* Resolver nor creates a socket; at most one connection attempt (a pending
\* config resolution or a connecting socket) is in flight at any time.
C1_SingleConnectInFlight ==
    /\ [](InFlight <= 1)
    /\ [][(/\ last'.op \in {"connect", "manualRetry", "sendMessage", "timer", "effects",
                            "loadConversation"}
           /\ (fetching > 0 \/ (WsUsable(St) /\ last'.op # "loadConversation")))
          => (fetching' = fetching /\ ~NewSockStep)]_vars

C1_Witness == last.op = "connect" /\ last.guarded /\ fetching = 1

\* C2 as claimed: after exactly MAX_RECONNECT_ATTEMPTS abnormal closes with no
\* open in between, connectionState is failed and no reconnect timer is pending.
C2_Original ==
    (AbnormalClose /\ abnormalRun = MAX_RECONNECT_ATTEMPTS)
        => (connectionState = "failed" /\ NoTimerPending)

\* C2 as amended: the close that makes MAX_RECONNECT_ATTEMPTS + 1 abnormal
\* closes since the last open, manualRetry() or clearChatHistory() (the first
\* connection's and those of the MAX_RECONNECT_ATTEMPTS automatic retries)
\* sets connectionState to failed and schedules no reconnect timer.
C2_FailedAfterRetries ==
    [][(last'.op = "onclose" /\ last'.code # NORMAL_CLOSE
        /\ abnormalRun' = MAX_RECONNECT_ATTEMPTS + 1)
       => (connectionState' = "failed" /\ failedFlag' /\ NewTimerStep = {}
           /\ reconnectAttempts' = MAX_RECONNECT_ATTEMPTS)]_vars

C2_Witness == AbnormalClose /\ abnormalRun = MAX_RECONNECT_ATTEMPTS + 1
              /\ connectionState = "failed"

\* C3: the n-th reconnect scheduled since the last open, manualRetry() or
\* clearChatHistory() (n = 1..MAX_RECONNECT_ATTEMPTS) has delay
\* RECONNECT_DELAY * 2^(n-1), one of 1000, 2000, 4000, 8000, 16000 ms, and is
\* never shorter than the one scheduled before it.
C3_BackoffDelays ==
    [][NewTimerStep # {}
       => LET d == timers'[CHOOSE t \in NewTimerStep : TRUE]
              n == abnormalRun'
          IN /\ n \in 1..MAX_RECONNECT_ATTEMPTS
             /\ d = RECONNECT_DELAY * (2 ^ (n - 1))
             /\ d = <<1000, 2000, 4000, 8000, 16000>>[n]
             /\ d >= lastDelay]_vars

C3_Witness == AbnormalClose /\ abnormalRun = MAX_RECONNECT_ATTEMPTS /\ lastDelay = 16000
              /\ ~NoTimerPending

\* C4 as claimed: after disconnect() returns, connectionState is disconnected and
\* neither a reconnect timer nor a typing timer is pending, and until the caller
\* next asks to connect the state stays disconnected and no socket is connecting
\* or open.
C4_DisconnectIsTerminal ==
    /\ last.op = "disconnect"
         => (connectionState = "disconnected" /\ NoTimerPending /\ ~typingTimeoutRef)
    /\ discSince
         => (/\ connectionState = "disconnected"
             /\ \A s \in Slots : socks[s] \notin {"CONNECTING", "OPEN"})

\* C5 as claimed: a close event with the normal code 1000 sets connectionState to
\* disconnected and schedules no reconnect timer, whatever the attempt counter.
C5_NormalCloseDisconnects ==
    [][(last'.op = "onclose" /\ last'.code = NORMAL_CLOSE)
       => (connectionState' = "disconnected" /\ NewTimerStep = {})]_vars

\* C6: when config resolution fails during connect(), connectionState becomes
\* failed, the connection-failed flag is set, no socket is created and no
\* reconnect timer is pending; a config resolution starts only in a connect()
\* the consumer causes (connect, manualRetry, sendMessage, autoConnect), never
\* from a timer or a socket event.
C6_ConfigFailureStops ==
    [][/\ last'.op = "configFail"
            => (/\ connectionState' = "failed"
                /\ failedFlag'
                /\ ~NewSockStep
                /\ \A s \in Slots : socks'[s] = "NONE"
                /\ \A t \in TimerSlots : timers'[t] = 0
                /\ fetching' = fetching - 1)
       /\ fetching' > fetching
            => last'.op \in {"connect", "manualRetry", "sendMessage", "effects"}]_vars

C6_Witness == last.op = "configFail" /\ connectionState = "failed" /\ failedFlag
              /\ fetching = 0

\* C7 as claimed: connectionState leaves failed only in a step the consumer
\* causes (a call, or the effect that follows a change of autoConnect), never
\* by a socket event or timer, and enters failed only when config resolution
\* failed or a close found the retries exhausted.
C7_FailedIsTerminal ==
    [][/\ (connectionState = "failed" /\ connectionState' # "failed")
            => last'.op \in CallerOps \cup {"effects"}
       /\ (connectionState # "failed" /\ connectionState' = "failed")
            => \/ last'.op = "configFail"
               \/ (last'.op = "onclose"
                   /\ reconnectAttempts >= MAX_RECONNECT_ATTEMPTS)]_vars

\* C8: manualRetry() sets the attempt counter and retryAttempt to 0 and invokes
\* connect() (which starts a connection unless a socket is connecting or open or
\* a connect is in flight); from failed with no socket and no connect in flight
\* the state becomes connecting and the connection-failed flag is cleared.
C8_ManualRetry ==
    [][last'.op = "manualRetry"
       => /\ reconnectAttempts' = 0
          /\ retryAttempt' = 0
          /\ (~WsUsable(St) /\ ~connectingRef)
               => (/\ connectionState' = "connecting"
                   /\ ~failedFlag'
                   /\ (fetching' = fetching + 1 \/ NewSockStep))
          /\ (connectionState = "failed" /\ wsRef = 0 /\ ~connectingRef /\ fetching = 0)
               => (connectionState' = "connecting" /\ ~failedFlag')]_vars

C8_Witness == last.op = "manualRetry" /\ last.from = "failed" /\ ~last.guarded
              /\ connectionState = "connecting" /\ ~failedFlag

\* C9: every open event sets connectionState to connected, the attempt counter
\* and retryAttempt to 0 and error to null; each of the first
\* MAX_RECONNECT_ATTEMPTS abnormal closes after it schedules a retry.
C9_OpenResets ==
    /\ last.op = "onopen"
         => (/\ connectionState = "connected"
             /\ reconnectAttempts = 0
             /\ retryAttempt = 0
             /\ error = "null"
             /\ abnormalRun = 0)
    /\ (AbnormalClose /\ abnormalRun \in 1..MAX_RECONNECT_ATTEMPTS)
         => (/\ connectionState = "reconnecting"
             /\ reconnectAttempts = abnormalRun
             /\ ~NoTimerPending)

\* an open that follows a retry (the id of a fired reconnect timer is still held)
C9_Witness == last.op = "onopen" /\ reconnectTimeoutRef = -1
              /\ connectionState = "connected" /\ reconnectAttempts = 0

TerminalFrame(rec) == rec.op = "frame" /\ rec.f.json /\ rec.f.type \in {"message", "complete"}
Uninteresting(c) == c = <<>> \/ c = <<NO_CONTENT>> \/ ToLowerCase(c) = <<SALES>>

\* C12 as claimed: when a message or complete frame follows chunk frames, after
\* the user has sent a message, exactly one assistant message is appended and
\* its content is the trimmed concatenation of the chunk payloads, also when the
\* frames are handled before the next render.
C12_StreamedContentMaterialized ==
    [][(/\ TerminalFrame(mlast')
        /\ ~isStoppedRef
        /\ hasUserMessageRef
        /\ ~Uninteresting(Trim(turnChunks)))
       => messages' = Append(messages, [Msg("assistant", Trim(turnChunks), "")
                                           EXCEPT !.animateTyping = "true"])]_vars

Appended == {messages'[i] : i \in (Len(messages) + 1)..Len(messages')}
Contains(text, w) == \E i \in DOMAIN text : text[i] = w

\* the chunk words streamed before the last stopRequest() are Word(0..PreStop)
PreStop == stoppedTurn + stops - 1

\* C13 as claimed: once stopRequest() was called and the user has sent a new
\* message, no assistant message appended afterwards contains text streamed
\* before the stop.
C13_NoPreStopContent ==
    [][(stops > 0 /\ turn' > stoppedTurn')
       => \A m \in Appended :
            m.role = "assistant" => \A k \in 0..PreStop' : ~Contains(m.content, Word(k))]_vars

\* what a dropped frame must leave alone
DisplayUnchanged ==
    UNCHANGED <<messages, isTyping, status, currentResponse, crQueue, lastStreamedContent,
                flushedReasoningText, conversationId, storedConv, error, errorValue,
                typingTimeoutRef>>
FrameStep == mlast'.op = "frame" /\ mlast'.f.json
StopInterval == stops > 0 /\ turn = stoppedTurn

\* C14 as claimed: from stopRequest() until the next sendMessage(), every frame
\* other than session_established leaves messages, isTyping, status, the
\* streaming buffer, conversationId and error unchanged.
C14_Original ==
    [][(FrameStep /\ StopInterval /\ mlast'.f.type # "session_established")
       => DisplayUnchanged]_vars

\* C14 as amended: while isStoppedRef is set, every frame other than
\* session_established leaves messages, isTyping, status, the streaming buffer,
\* conversationId and error unchanged, and a session_established frame with an
\* id still updates the session id; the flag is set by stopRequest() only and
\* cleared by sendMessage() and by ws.onopen only.
C14_StoppedDropsFrames ==
    [][/\ (FrameStep /\ isStoppedRef)
          => /\ DisplayUnchanged
             /\ (mlast'.f.type = "session_established" /\ mlast'.f.sid # 0)
                   => (sessionIdRef' = mlast'.f.sid /\ storedSid' = mlast'.f.sid)
       /\ (~isStoppedRef /\ isStoppedRef') => mlast'.op = "stopRequest"
       /\ (isStoppedRef /\ ~isStoppedRef') => mlast'.op \in {"sendMessage", "onopen"}
       /\ mlast'.op = "stopRequest" => isStoppedRef'
       /\ mlast'.op \in {"sendMessage", "onopen"} => ~isStoppedRef']_vars

C14_Witness ==
    /\ mlast.op = "frame" /\ mlast.f.json
    /\ mlast.f.type = "complete"
    /\ isStoppedRef
    /\ socks[mlast.s] = "OPEN"
    /\ lastStreamedContent[mlast.s] # <<>>

\* C15 as claimed: when isTyping is true on an open connection and no further
\* frame arrives, isTyping eventually becomes false (or the connection is lost).
C15_TypingEventuallyClears ==
    \A n \in 0..MaxFrames :
        (isTyping /\ WsOpen(St) /\ frames = n) ~> (~isTyping \/ frames # n \/ ~WsOpen(St))

SendStep == mlast'.op = "sendMessage"
UserMsg == Msg("user", <<"u">>, "")
NoConnectStep == fetching' = fetching /\ ~NewSockStep /\ connectionState' = connectionState

\* C16 as claimed: a sendMessage() while connectionState is failed (rendered, so
\* that connectionStateRef is failed too) appends the user message and then the
\* fallback assistant message, sends nothing, does not invoke connect() and
\* leaves isTyping false.
C16_FailedSendGetsFallback ==
    [][(SendStep /\ connectionState = "failed" /\ connectionStateRef = "failed")
       => /\ messages' = messages \o <<UserMsg, FallbackMsg>>
          /\ ~mlast'.sent
          /\ NoConnectStep
          /\ ~isTyping']_vars

\* connect() ran in this step: it passed its guards, or it returned at one
ConnectInvokedStep ==
    \/ ConnectGuarded(St)
    \/ fetching' > fetching
    \/ NewSockStep

\* C17 as claimed: sendMessage() without a convId while the socket is not open
\* appends the user message and returns; it invokes connect() if
\* connectionState is disconnected and appends the fallback assistant message
\* if connectionState is failed.
C17_SendWhileNotOpen ==
    [][(SendStep /\ ~mlast'.flag /\ ~WsOpen(St))
       => /\ Len(messages') > Len(messages)
          /\ SubSeq(messages', 1, Len(messages) + 1) = Append(messages, UserMsg)
          /\ connectionState = "disconnected" => ConnectInvokedStep
          /\ connectionState = "failed" => messages' = messages \o <<UserMsg, FallbackMsg>>]_vars

\* C18: a frame whose payload is not valid JSON changes nothing of the hook's
\* state (messages, typing, buffer, session, conversation, connection state,
\* sockets), so the socket stays open and later frames are handled as if the
\* frame had never arrived.
C18_BadJsonDropped ==
    [][(mlast'.op = "frame" /\ ~mlast'.f.json) => UNCHANGED <<progVars, msgVars>>]_vars

C18_Witness ==
    /\ mlast.op = "frame" /\ ~mlast.f.json
    /\ socks[mlast.s] = "OPEN" /\ wsRef = mlast.s
    /\ isTyping
    /\ lastStreamedContent[mlast.s] # <<>>
    /\ connectionState = "connected"

\* text that came in chunk frames
Streamed(text) == \E i \in DOMAIN text : text[i] = "x" \/ \E k \in 0..6 : text[i] = Word(k)
ErrorFrame(rec) == rec.op = "frame" /\ rec.f.json /\ rec.f.type = "error"

\* C19 as claimed: an error frame sets the error value to the frame's message,
\* sets isTyping to false, appends no message and leaves the socket and
\* connectionState alone, and the terminal frame that follows it materializes
\* nothing that was streamed before the error frame.
C19_ErrorDiscardsStream ==
    [][/\ (ErrorFrame(mlast') /\ ~isStoppedRef)
          => /\ error' = "set" /\ errorValue' = mlast'.f.message
             /\ ~isTyping'
             /\ messages' = messages
             /\ socks' = socks /\ wsRef' = wsRef
             /\ connectionState' = connectionState
       /\ (ErrorFrame(mlast) /\ ~isStoppedRef /\ TerminalFrame(mlast') /\ mlast'.s = mlast.s)
          => \A m \in Appended : ~Streamed(m.content)]_vars

\* a frame the handler looks at that carries a conversation id
CarriesConversationId(rec) == rec.op = "frame" /\ rec.f.json /\ rec.f.conv # 0

\* C20 as claimed: a frame that carries a conversation id (and is not dropped
\* by the stop flag) sets conversationId to it, whatever the frame's type.
C20_ConversationIdAdopted ==
    [][(CarriesConversationId(mlast') /\ ~isStoppedRef) => conversationId' = mlast'.f.conv]_vars



\* ------------------------------------------------- the hook and tool calls
\* The same hook with a server that streams a word, calls tools and ends the turn with
\* a message that repeats the streamed word.
MaxToolFrames == 4   \* frames the server sends in one run of this specification

ToolBatch ==
    <<[id |-> 1, name |-> "t1", arguments |-> "json", inner |-> "-"],
      [id |-> 2, name |-> "t2", arguments |-> "unparseable", inner |-> "-"],
      [id |-> 3, name |-> "call_wordpress_tool", arguments |-> "wrapped", inner |-> "t3"]>>

ToolFrames(t) ==
    {FrameOf(TRUE, "streaming_chunk", <<Word(t)>>, <<>>, <<>>, 0, 0, FALSE),
     ToolCallFrame(<<>>),
     ToolCallFrame(ToolBatch),
     FrameOf(TRUE, "complete", <<>>, <<>>, <<>>, 0, 0, FALSE),
     FrameOf(TRUE, "message", <<>>, <<Word(t), "m">>, <<>>, 0, 0, FALSE)}

ToolFrame == FrameFrom(ToolFrames(turn + stops), MaxToolFrames)

ToolNext ==
    \/ MsgRender
    \/ MsgSendMessage
    \/ MsgStopRequest
    \/ MsgConfigResolved
    \/ MsgSockOpen
    \/ MsgSockError
    \/ MsgSockClose
    \/ ToolFrame
    \/ MsgReconnectTimer
    \/ MsgTypingTimer

ToolSpec == MsgInit /\ [][ToolNext]_vars


\* --------------------------------------------- the hook without auto-load
\* The hook constructed with autoLoadHistory = false in a browser whose storage holds
\* the chat of an earlier visit; the consumer neither clears nor loads a conversation.
PriorTranscript ==
    <<Msg("user", <<"u">>, ""), [Msg("assistant", <<"m">>, "") EXCEPT !.animateTyping = "true"]>>

NoLoadInit ==
    /\ ConnInitial
    /\ storedSid \in ServerSids
    /\ sessionIdRef = InitialChat(FALSE, storedHistory, storedConv, storedSid).sessionId
    /\ storedConv \in ConvIds
    /\ storedHistory = Item(PriorTranscript)
    /\ MsgMounted(InitialChat(FALSE, storedHistory, storedConv, storedSid))
    /\ StoreInitial

NoLoadFrames ==
    {FrameOf(TRUE, "session_established", <<>>, <<>>, <<>>, 0, sid, FALSE) : sid \in ServerSids}
    \cup {FrameOf(TRUE, "tool_result", <<>>, <<>>, <<>>, c, 0, FALSE) : c \in ConvIds}
    \cup {FrameOf(TRUE, "message", <<>>, <<"m">>, <<>>, 0, 0, FALSE)}

NoLoadFrame == FrameFrom(NoLoadFrames, MaxFrames)

NoLoadNext ==
    \/ MsgRender
    \/ MsgSendMessage
    \/ MsgStopRequest
    \/ MsgConfigResolved
    \/ MsgSockOpen
    \/ MsgSockError
    \/ MsgSockClose
    \/ NoLoadFrame
    \/ MsgReconnectTimer
    \/ MsgTypingTimer

NoLoadSpec == NoLoadInit /\ [][NoLoadNext]_vars

\* ------------------------------------------------ the hook and the greeting
\* The same hook with a server that sends its greeting, as a message and as a chunk,
\* and an ordinary message.
GreetFrames ==
    {FrameOf(TRUE, "message", <<>>, <<GREETING>>, <<>>, 0, 0, FALSE),
     FrameOf(TRUE, "streaming_chunk", <<GREETING>>, <<>>, <<>>, 0, 0, FALSE),
     FrameOf(TRUE, "message", <<>>, <<"m">>, <<>>, 0, 0, FALSE)}

GreetFrame == FrameFrom(GreetFrames, MaxFrames)

GreetNext ==
    \/ MsgRender
    \/ MsgSendMessage
    \/ MsgStopRequest
    \/ MsgConfigResolved
    \/ MsgSockOpen
    \/ MsgSockError
    \/ MsgSockClose
    \/ GreetFrame
    \/ MsgReconnectTimer
    \/ MsgTypingTimer

GreetSpec == MsgInit /\ [][GreetNext]_vars

\* ============================================================ the chat store
\* The operations of the store, called in any order by the hook and by the consumer,
\* each under a failure mode of the storage.
StoreHookVars == <<progVars, histVars, msgVars, msgHistVars>>
MU == StoreMsg("user", <<"u">>, "date", 1, "absent")
MA == StoreMsg("assistant", <<"m">>, "date", 2, "true")
MB == StoreMsg("user", <<BLANK>>, "date", 1, "absent")
ME == StoreMsg("user", <<>>, "date", 1, "absent")
MI == StoreMsg("user", <<"x">>, "iso", 3, "false")
StoreMsgLists == {<<>>, <<MA>>, <<MB, MA>>, <<ME>>, <<MU, MA>>, <<MA, MI>>}
ArchiveMsgLists == {<<>>, <<MB, MA>>, <<MU, MA>>}
Limits == {2, DEFAULT_MAX_HISTORY_ITEMS}

\* for archiveConversation the field scope holds the limit k
StoreRec(op, scope, old, msgs, sess, conv, f) ==
    [op |-> op, scope |-> scope, old |-> old, msgs |-> msgs, sess |-> sess, conv |-> conv,
     fail |-> f, ret |-> <<>>, raised |-> FALSE, prev |-> "none", changed |-> {}]
\* prev and changed are observations: the operation run before this one, and the keys
\* whose value this one changed
StoreStep(r, rec, max) ==
    /\ clock < max
    /\ ls' = r.st.ls
    /\ lsSiteId' = r.st.site
    /\ slast' = [rec EXCEPT !.ret = r.ret, !.raised = r.raised, !.prev = slast.op,
                            !.changed = {k \in Scopes \X {"history", "conversation-id", "session-id", "archive"} :
                                            r.st.ls[k[1]][k[2]] # ls[k[1]][k[2]]}]
    /\ clock' = clock + 1
    /\ UNCHANGED <<StoreHookVars, keyScopes, migratedConn>>

StoreInit == Init /\ storedSid = 0 /\ ~failedFlag /\ ~autoConnect

PersistMessages ==
    \E scope \in Scopes, msgs \in StoreMsgLists, f \in FailModes :
        /\ StoreStep(persistMessages(Store, scope, msgs, f),
                     StoreRec("persistMessages", scope, 0, msgs, 0, 0, f), MaxStoreOps)
        /\ UNCHANGED <<archLog, archOnly>>

RestoreChat ==
    \E scope \in Scopes, f \in FailModes :
        /\ StoreStep(restoreChat(Store, scope, f),
                     StoreRec("restoreChat", scope, 0, <<>>, 0, 0, f), MaxStoreOps)
        /\ UNCHANGED <<archLog, archOnly>>

PersistConversationId ==
    \E scope \in Scopes, id \in {0} \cup StoreIds, f \in FailModes :
        /\ StoreStep(persistConversationId(Store, scope, id, f),
                     StoreRec("persistConversationId", scope, 0, <<>>, 0, id, f), MaxStoreOps)
        /\ UNCHANGED <<archLog, archOnly>>

SaveSessionIdKey ==
    \E scope \in Scopes, id \in StoreIds, f \in FailModes :
        /\ StoreStep(saveSessionIdKey(Store, scope, id, f),
                     StoreRec("saveSessionId", scope, 0, <<>>, id, 0, f), MaxStoreOps)
        /\ UNCHANGED <<archLog, archOnly>>

ClearChatStorage ==
    \E scope \in Scopes, f \in FailModes :
        /\ StoreStep(clearChatStorage(Store, scope, f),
                     StoreRec("clearChatStorage", scope, 0, <<>>, 0, 0, f), MaxStoreOps)
        /\ UNCHANGED <<archLog, archOnly>>

GetSiteId ==
    \E f \in FailModes :
        /\ StoreStep(getSiteId(Store, f), StoreRec("getSiteId", 0, 0, <<>>, 0, 0, f), MaxStoreOps)
        /\ UNCHANGED <<archLog, archOnly>>

SetSiteId ==
    \E id \in Sites, f \in FailModes :
        /\ StoreStep(setSiteId(Store, id, f), StoreRec("setSiteId", id, 0, <<>>, 0, 0, f), MaxStoreOps)
        /\ archOnly' = FALSE
        /\ UNCHANGED archLog

\* the hook migrates when the site id of the config differs from the cached one
MigrateStorageKeys ==
    \E old \in Scopes, new \in Sites, f \in FailModes :
        /\ old # new
        /\ StoreStep(migrateStorageKeys(Store, old, new, f),
                     StoreRec("migrateStorageKeys", new, old, <<>>, 0, 0, f), MaxStoreOps)
        /\ archOnly' = FALSE
        /\ UNCHANGED archLog

\* archiveConversation(messages, sessionId, conversationId, consumer, { maxHistoryItems: k })
ArchiveCall(msgSet, idSet, limitSet, failSet, max) ==
    \E msgs \in msgSet, sess \in idSet, conv \in idSet, k \in limitSet, f \in failSet :
        LET r == archiveConversation(Store, msgs, sess, conv, k, f, clock + 1) IN
        /\ StoreStep(r, StoreRec("archiveConversation", k, 0, msgs, sess, conv, f), max)
        /\ archLog' = IF r.st = Store THEN archLog
                      ELSE <<[sessionId |-> sess, conversationId |-> conv,
                              archivedAt |-> clock + 1, limit |-> k]>> \o archLog
        /\ UNCHANGED archOnly

RemoveCall(idSet, failSet, max) ==
    \E sess \in idSet, conv \in idSet, f \in failSet :
        /\ StoreStep(removeConversationFromArchive(Store, conv, sess, f),
                     StoreRec("removeConversationFromArchive", 0, 0, <<>>, sess, conv, f), max)
        /\ archOnly' = FALSE
        /\ UNCHANGED archLog

ArchiveConversation ==
    ArchiveCall(ArchiveMsgLists, {0, 1}, {DEFAULT_MAX_HISTORY_ITEMS}, FailModes, MaxStoreOps)

RemoveConversationFromArchive == RemoveCall({0, 1}, FailModes, MaxStoreOps)

StoreNext ==
    \/ PersistMessages
    \/ RestoreChat
    \/ PersistConversationId
    \/ SaveSessionIdKey
    \/ ClearChatStorage
    \/ GetSiteId
    \/ SetSiteId
    \/ MigrateStorageKeys
    \/ ArchiveConversation
    \/ RemoveConversationFromArchive

StoreSpec == StoreInit /\ [][StoreNext]_vars

\* the archive alone, on a storage that works: conversations are archived under every
\* combination of ids and limits, and removed
ArchiveMany ==
    ArchiveCall({<<MB, MA>>, <<MU, MA>>}, {0} \cup StoreIds, Limits, {"none"}, MaxArchiveOps)

RemoveOne == RemoveCall({0} \cup StoreIds, {"none"}, MaxArchiveOps)

ArchiveNext ==
    \/ ArchiveMany
    \/ RemoveOne

ArchiveSpec == StoreInit /\ [][ArchiveNext]_vars

StoreTypeOK ==
    /\ lsSiteId \in {0} \cup Sites
    /\ clock \in 0..MaxArchiveOps
    /\ archOnly \in BOOLEAN
    /\ Len(archLog) <= clock
    /\ \A sc \in Scopes :
        /\ Len(ArchiveOf(Store, sc)) <= DEFAULT_MAX_HISTORY_ITEMS
        /\ ls[sc]["history"].has => hasMeaningfulUserMessage(ls[sc]["history"].v)


\* ------------------------------------------------------ chat store claims
\* the list holds a user message whose content is not empty once trimmed
HasNonEmptyUserMessage(msgs) ==
    \E i \in 1..Len(msgs) : msgs[i].role = "user" /\ Trim(msgs[i].content) # <<>>
\* the same messages in the same order, each marked animateTyping=false, each timestamp
\* the same instant
SameMessages(got, msgs) ==
    /\ Len(got) = Len(msgs)
    /\ \A i \in 1..Len(msgs) :
        /\ got[i].role = msgs[i].role
        /\ got[i].type = msgs[i].type
        /\ got[i].content = msgs[i].content
        /\ got[i].timestamp.t = msgs[i].timestamp.t
        /\ got[i].animateTyping = "false"
\* restoreChat has just run on the key persistMessages has just written, the storage working
RestoreAfterPersist ==
    /\ slast.op = "persistMessages" /\ slast.fail = "none"
    /\ slast'.op = "restoreChat" /\ slast'.fail = "none"
    /\ slast'.scope = slast.scope

Migrated == slast'.op = "migrateStorageKeys" /\ slast'.fail = "none"

\* C22: migrateStorageKeys(A, B, namespace) treats each of the four suffixes independently:
\* if A's key holds data and B's key holds none, afterwards B's key holds A's former data
\* and A's key is absent; if B's key already holds data it is left unchanged and A's key is
\* removed; running the migration a second time changes nothing.
C22_MigrateCopyIfAbsent ==
    [][Migrated =>
         /\ \A i \in 1..Len(Suffixes) :
              LET a == ls[slast'.old][Suffixes[i]]
                  b == ls[slast'.scope][Suffixes[i]]
              IN  /\ ls'[slast'.scope][Suffixes[i]] = IF a.has /\ ~b.has THEN a ELSE b
                  /\ ~ls'[slast'.old][Suffixes[i]].has
         /\ (slast.op = "migrateStorageKeys" /\ slast.fail = "none"
                /\ slast.old = slast'.old /\ slast.scope = slast'.scope) => ls' = ls]_vars

\* a second migration in a row, after the first moved the history to the new prefix
C22_Witness ==
    /\ slast.op = "migrateStorageKeys" /\ slast.prev = "migrateStorageKeys"
    /\ slast.fail = "none" /\ slast.changed = {}
    /\ ls[1]["history"].has /\ ~ls[0]["history"].has


\* ---------------------------------------------------------- archive claims
\* the archive under the prefix of the cached site id
Archive == ArchiveOf(Store, lsSiteId)
\* archiveConversation() has just written the archive
ArchiveWrote == slast'.op = "archiveConversation" /\ slast'.changed # {}
\* the entry is a snapshot of the conversation the call just made archives: it has the
\* call's conversationId or, when that is null, the call's sessionId
SameConversation(e, rec) ==
    IF rec.conv # 0 THEN e.conversationId = rec.conv ELSE e.sessionId = rec.sess
IsSnapshotOf(e, rec, at) ==
    /\ e.sessionId = rec.sess /\ e.conversationId = rec.conv
    /\ e.messages = Stringify(rec.msgs) /\ e.archivedAt = at

\* C23: archiving a conversation whose conversationId (or, when conversationId is null,
\* whose sessionId) already has an entry in the archive replaces that entry: the archive
\* does not grow, the new snapshot is the first entry, the older snapshot of that
\* conversation is gone and all other entries keep their relative order.
C23_RearchiveReplaces ==
    [][(ArchiveWrote /\ \E i \in 1..Len(Archive) : SameConversation(Archive[i], slast'))
          => /\ Len(Archive') <= Len(Archive)
             /\ IsSnapshotOf(Archive'[1], slast', clock')
             /\ \A i \in 2..Len(Archive') : ~SameConversation(Archive'[i], slast')
             /\ Tail(Archive') = Take(SelectSeq(Archive, LAMBDA e : ~SameConversation(e, slast')),
                                      slast'.scope - 1)]_vars

\* three conversations were archived under the default limit and one of them twice
C23_Witness ==
    /\ slast.op = "archiveConversation" /\ slast.changed # {}
    /\ Len(archLog) = 3 /\ archOnly
    /\ \A i \in 1..3 : archLog[i].limit = DEFAULT_MAX_HISTORY_ITEMS
    /\ Len(Archive) = 2
    /\ archLog[1].conversationId # 0 /\ archLog[1].conversationId = archLog[3].conversationId
    /\ Archive[2].archivedAt = 2


\* the conversation an archive call is about: its conversationId, else its sessionId
ConvKey(e) == IF e.conversationId # 0 THEN <<"conversation", e.conversationId>>
              ELSE <<"session", e.sessionId>>
\* the calls of the log without the earlier calls for a conversation archived again later
RECURSIVE Distinct(_)
Distinct(log) ==
    IF log = <<>> THEN <<>>
    ELSE <<Head(log)>> \o Distinct(SelectSeq(Tail(log), LAMBDA e : ConvKey(e) # ConvKey(Head(log))))
\* every call so far was made with the limit k, and nothing else wrote the archive
OnlyArchivedWith(k) == archOnly /\ \A i \in 1..Len(archLog) : archLog[i].limit = k

\* C24: after any sequence of archiveConversation calls with limit k, the stored archive
\* holds at most k entries and they are the k most recently archived distinct conversations
\* in most-recent-first order; the oldest entry is the one evicted when the limit is exceeded.
C24_ArchiveIsLatestDistinct ==
    \A k \in Limits :
        OnlyArchivedWith(k) =>
            LET latest == Take(Distinct(archLog), k) IN
            /\ Len(Archive) <= k
            /\ Len(Archive) = Len(latest)
            /\ \A i \in 1..Len(latest) :
                /\ Archive[i].sessionId = latest[i].sessionId
                /\ Archive[i].conversationId = latest[i].conversationId
                /\ Archive[i].archivedAt = latest[i].archivedAt


\* archiveConversation() has just been called with arguments one of its guards refuses
RefusedArchiveCall(rec) ==
    /\ rec.op = "archiveConversation"
    /\ \/ rec.sess = 0 /\ rec.conv = 0
       \/ rec.msgs = <<>>
       \/ ~HasNonEmptyUserMessage(rec.msgs)

\* C25: archiveConversation called with sessionId and conversationId both null, with an
\* empty message list, or with no user message of non-empty content leaves the stored
\* archive unchanged.
C25_RefusedArchiveWritesNothing ==
    [][RefusedArchiveCall(slast') => ls' = ls /\ lsSiteId' = lsSiteId]_vars

\* a conversation with a user message but neither id, offered to an archive that has an entry
C25_Witness ==
    /\ RefusedArchiveCall(slast)
    /\ slast.msgs = <<MU, MA>> /\ slast.fail = "none"
    /\ Archive # <<>>

\* C26: when the underlying storage fails on any access (read, write or remove), every
\* store operation returns normally without raising to its caller, and restoreChat returns
\* the empty result.
C26_StorageFailureSwallowed ==
    /\ ~slast.raised
    /\ (slast.op = "restoreChat" /\ slast.fail = "unavailable") => slast.ret = EmptyChat

\* the history key holds a conversation and the storage throws on the read of restoreChat
C26_Witness ==
    /\ slast.op = "restoreChat" /\ slast.fail = "unavailable"
    /\ ls[slast.scope]["history"].has
    /\ slast.ret = EmptyChat /\ ~slast.raised


\* ------------------------------------------------------- tool call claims
\* a tool_call frame that the handler processes
ToolCallStep == mlast'.op = "frame" /\ mlast'.f.json /\ mlast'.f.type = "tool_call" /\ ~isStoppedRef
\* the text streamed by the chunk frames since the buffer was last reset
StreamedBuffer == Trim(turnChunks)
\* the latest message of the transcript is the reasoning message that a tool_call frame
\* of the present turn flushed, and its text is the word of the turn
FlushedThisTurn ==
    /\ messages # <<>>
    /\ messages[Len(messages)].tag = "-reasoning"
    /\ messages[Len(messages)].content = <<Word(turn + stops)>>

\* the step before this one was a tool_call frame that the handler processed
AfterToolCall == mlast.op = "frame" /\ mlast.f.type = "tool_call" /\ turnChunks = <<>>

\* C29: on a tool_call frame, any non-empty accumulated streaming buffer is appended as
\* exactly one standalone assistant message with animateTyping=false, the buffer is
\* emptied, isTyping is true afterwards, and the following terminal frame does not append
\* that flushed text a second time.
C29_ToolCallFlushesBuffer ==
    /\ [][ToolCallStep =>
            /\ isTyping'
            /\ ProcessQueue(Hook)'.currentResponse = <<>>
            /\ StreamedBuffer # <<>> =>
                    /\ Len(messages') = Len(messages) + 1
                    /\ \A m \in Appended :
                        /\ m.role = "assistant"
                        /\ m.content = StreamedBuffer
                        /\ m.animateTyping = "false"]_vars
    /\ [][(TerminalFrame(mlast') /\ ~isStoppedRef /\ AfterToolCall /\ FlushedThisTurn)
            => \A m \in Appended : ~Contains(m.content, Word(turn + stops))]_vars

\* C30: for every tool_call frame received on an open connection whose function_content is
\* a non-empty batch, the consumer's tool callback is invoked exactly once with one
\* normalized descriptor per input descriptor in the same order (a descriptor whose
\* arguments cannot be parsed yields an entry with empty arguments), and the core itself
\* executes no tool.
C30_ToolBatchForwarded ==
    [][(ToolCallStep /\ Len(mlast'.f.tools) > 0) =>
         /\ Len(dispatched') = Len(dispatched) + 1
         /\ LET batch == dispatched'[Len(dispatched')]
                tools == mlast'.f.tools
            IN  /\ Len(batch) = Len(tools)
                /\ \A i \in 1..Len(tools) :
                    /\ batch[i].id = tools[i].id
                    /\ tools[i].arguments = "unparseable" => batch[i].arguments = "empty"]_vars


\* ------------------------------------------------------- greeting claims
\* an assistant frame whose text is the greeting, and that the handler processes
GreetingFrame(rec) ==
    /\ rec.op = "frame" /\ rec.f.json
    /\ OrElse(rec.f.text, rec.f.message) = <<GREETING>>
HasUserMessage == \E i \in 1..Len(messages) : messages[i].role = "user"

\* C27: an assistant frame whose text is the greeting is suppressed (no message appended,
\* not shown as streaming text) whenever the transcript contains no user message, and is
\* appended unchanged whenever the transcript contains a user message; the decision flag
\* is true exactly when the user has sent a message.
C27_GreetingFilter ==
    /\ [][(GreetingFrame(mlast') /\ ~isStoppedRef /\ ~HasUserMessage)
            => /\ messages' = messages
               /\ ~Contains(ProcessQueue(Hook)'.currentResponse, GREETING)]_vars
    /\ [][(GreetingFrame(mlast') /\ ~isStoppedRef /\ HasUserMessage
              /\ mlast'.f.type = "message" /\ turnChunks = <<>>)
            => /\ Len(messages') = Len(messages) + 1
               /\ \A m \in Appended : m.role = "assistant" /\ m.content = <<GREETING>>]_vars
    /\ [](hasUserMessageRef <=> turn > 0)

\* ------------------------------------------------- autoLoadHistory claims
\* C28: with autoLoadHistory=false the hook starts with an empty transcript and null
\* conversation id and leaves the previously stored history, conversation-id and
\* session-id keys unchanged, at mount and through later message and connection activity,
\* until the caller explicitly clears or loads a conversation.
C28_NoLoadLeavesStorage ==
    /\ mlast.op = "init" => messages = <<>> /\ conversationId = 0
    /\ storedHistory = Item(PriorTranscript)
    /\ storedConv \in ConvIds
    /\ storedSid \in ServerSids


\* ------------------------------------------- the hook and the end of a turn
\* The same hook with a server that streams a word, sends a structured output with
\* content, stops typing or reports an error, and ends the turn with a message or
\* complete frame with or without usable content.
TurnFrames(t) ==
    {FrameOf(TRUE, "streaming_chunk", <<Word(t)>>, <<>>, <<>>, 0, 0, FALSE),
     FrameOf(TRUE, "typing_start", <<>>, <<>>, <<>>, 0, 0, FALSE),
     FrameOf(TRUE, "typing_stop", <<>>, <<>>, <<>>, 0, 0, FALSE),
     FrameOf(TRUE, "structured_output", <<>>, <<"m">>, <<>>, 0, 0, FALSE),
     FrameOf(TRUE, "error", <<>>, <<"e1">>, <<>>, 0, 0, FALSE),
     FrameOf(TRUE, "complete", <<>>, <<>>, <<>>, 0, 0, FALSE),
     FrameOf(TRUE, "message", <<>>, <<NO_CONTENT>>, <<>>, 0, 0, FALSE),
     FrameOf(TRUE, "message", <<>>, <<GREETING>>, <<>>, 0, 0, FALSE),
     FrameOf(TRUE, "message", <<>>, <<"m">>, <<>>, 0, 0, FALSE)}

TurnFrame == FrameFrom(TurnFrames(turn + stops), MaxFrames)

TurnNext ==
    \/ MsgRender
    \/ MsgSendMessage
    \/ MsgStopRequest
    \/ MsgConfigResolved
    \/ MsgSockOpen
    \/ MsgSockError
    \/ MsgSockClose
    \/ TurnFrame
    \/ MsgReconnectTimer
    \/ MsgTypingTimer

TurnSpec == MsgInit /\ [][TurnNext]_vars

\* ------------------------------------------------------ end-of-turn claims
\* the streaming buffer and the transcript as the next render will show them: the
\* queued updates of currentResponse applied
PendingBuffer == ProcessQueue(Hook).currentResponse
PendingTranscript == ProcessQueue(Hook).messages

\* a structured_output frame with usable message content that the handler processes
StructuredContentStep ==
    /\ mlast'.op = "frame" /\ mlast'.f.json
    /\ mlast'.f.type = "structured_output" /\ ~mlast'.f.approval
    /\ ~isStoppedRef
    /\ filterMessage(mlast'.f.message, hasUserMessageRef) # <<>>

\* C31: on a structured_output frame with usable message content and a non-empty
\* pending streamed buffer, two assistant messages are appended, the message of the
\* buffered text before the message of the final content, and the buffer is empty
\* afterwards.
C31_StructuredOutputFlushesFirst ==
    [][(StructuredContentStep /\ PendingBuffer # <<>>) =>
         LET before == PendingTranscript
             after == PendingTranscript'
             n == Len(before)
         IN  /\ Len(after) = n + 2
             /\ SubSeq(after, 1, n) = before
             /\ after[n + 1].role = "assistant"
             /\ after[n + 1].content = PendingBuffer
             /\ after[n + 2].role = "assistant"
             /\ after[n + 2].content = filterMessage(mlast'.f.message, hasUserMessageRef)
             /\ PendingBuffer' = <<>>]_vars


\* the words the server streams, and a text made of streamed words only
StreamWords == {Word(t) : t \in 0..(MaxSends + MaxStops)}
IsStreamedText(text) ==
    /\ text # <<>>
    /\ \A i \in 1..Len(text) : text[i] \in StreamWords \cup {BLANK}
    /\ \E i \in 1..Len(text) : text[i] \in StreamWords
\* the transcript already holds a message with a word of the text
AlreadyMaterialized(text) ==
    \E i \in 1..Len(PendingTranscript), k \in 1..Len(text) :
        /\ text[k] \in StreamWords
        /\ Contains(PendingTranscript[i].content, text[k])

\* C38: no streamed text is materialized into the transcript more than once: a frame
\* that arrives when no chunk has come since the last frame that ended the stretch
\* (structured_output, typing_stop, error, message, complete) appends no message with
\* streamed text that a message of the transcript already holds.
C38_StreamMaterializedOnce ==
    [][(mlast'.op = "frame" /\ mlast'.f.json /\ ~isStoppedRef /\ turnChunks = <<>>
          /\ ~ChunkSeen(mlast'.f)) =>
         \A m \in Appended :
             ~(IsStreamedText(m.content) /\ AlreadyMaterialized(m.content))]_vars


\* a message or complete frame without usable message field, handled by the handler
\* of its socket while the synchronously tracked buffer of that handler is empty
EmptyTerminalStep ==
    /\ mlast'.op = "frame" /\ mlast'.f.json
    /\ mlast'.f.type \in {"message", "complete"}
    /\ lastStreamedContent[mlast'.s] = <<>>
    /\ filterMessage(mlast'.f.message, hasUserMessageRef) = <<>>

\* C32: a message or complete frame that arrives with an empty streaming buffer and no
\* usable message field (absent, empty, placeholder or suppressed greeting) appends no
\* message and leaves isTyping, status and the typing-inactivity timer as they were.
C32_EmptyTerminalDoesNothing ==
    [][EmptyTerminalStep =>
         /\ messages' = messages
         /\ isTyping' = isTyping
         /\ status' = status
         /\ typingTimeoutRef' = typingTimeoutRef]_vars

\* the greeting arrived as a message before any user message, while the typing
\* indicator was on, and the indicator is still on
C32_Witness ==
    /\ mlast.op = "frame" /\ mlast.f.type = "message" /\ mlast.f.message = <<GREETING>>
    /\ ~hasUserMessageRef /\ ~isStoppedRef
    /\ messages = <<>>
    /\ isTyping /\ status = "typing_start"


\* C33: every transition caused by an incoming frame, by sendMessage or by the
\* transition into failed only appends to the transcript: the messages present before
\* the transition remain afterwards as an unchanged prefix in the same order.
C33_TranscriptAppendOnly ==
    [][/\ Len(messages') >= Len(messages)
       /\ SubSeq(messages', 1, Len(messages)) = messages]_vars

\* the user sent a message, the connection failed, and the fallback message of the
\* failed connection stands after the user's message
C33_Witness ==
    /\ mlast.op = "render"
    /\ Len(messages) = 2
    /\ messages[1].role = "user"
    /\ messages[2] = FallbackMsg
    /\ connectionState = "failed"


\* ------------------------------------------------ connection state claims
\* C34: in every reachable state connectionState is connected if and only if the
\* hook's current socket is open; the late close event of a socket that disconnect()
\* and connect() or clearChatHistory() replaced never moves the state away from
\* connecting or connected for the newer socket.
C34_ConnectedIffSocketOpen ==
    /\ [](connectionState = "connected" <=> WsOpen(St))
    /\ [][(last'.op = "onclose" /\ WsUsable(St) /\ wsRef' = wsRef
             /\ connectionState \in {"connecting", "connected"})
            => connectionState' = connectionState]_vars


\* C36: the connection-failed flag of the session scratch storage is present exactly
\* while connectionState is failed; it is never set while the state is connecting,
\* reconnecting, connected or disconnected.
C36_FailedFlagIffFailed == failedFlag <=> connectionState = "failed"


\* the close event of the socket that the clearChatHistory() of the step before closed
ClearedSocketCloses ==
    /\ last.op = "clearChatHistory"
    /\ last.code # 0
    /\ socks[last.code] = "CLOSING"
    /\ last'.op = "onclose"
    /\ socks'[last.code] = "NONE"

\* C39: after clearChatHistory() the late events of the socket it closed are inert:
\* they append nothing and do not restore the old session id, and its close event
\* neither schedules a reconnect nor sets connectionState to reconnecting or failed.
C39_ClearedSocketInert ==
    [][ClearedSocketCloses
         => /\ connectionState' \notin {"reconnecting", "failed"}
            /\ NewTimerStep = {}
            /\ storedSid' = storedSid
            /\ sessionIdRef' = sessionIdRef]_vars


\* ------------------------------------------------------ delivery of user messages
\* sendMessage() has just accepted a user message without transmitting it: the socket
\* was not open and the call did not answer with the fallback message
AcceptedUnsent ==
    /\ mlast.op = "sendMessage"
    /\ ~mlast.flag
    /\ ~mlast.sent
    /\ messages # <<>>
    /\ messages[Len(messages)] = UserMsg

\* C40: a user message that sendMessage() accepted while the socket was not open and
\* connectionState was disconnected, connecting or reconnecting is eventually
\* transmitted as a chat payload once the connection opens (or the connection is
\* lost again before that).
C40_AcceptedMessageEventuallySent ==
    [](AcceptedUnsent => [](mlast.op = "onopen" => <>(mlast.sent \/ ~WsOpen(St))))


\* ------------------------------------------------------------ reconnect timers
PendingTimers == {t \in TimerSlots : timers[t] # 0}

\* the reconnect timer that fires in this step
FiredTimer == {t \in TimerSlots : timers[t] # 0 /\ timers'[t] = 0}

\* a reconnect timer fires and its connect() passes the guards
TimerConnects == last'.op = "timer" /\ ~last'.guarded

\* C35: at most one reconnect timer is pending at any time; a reconnect timer never
\* fires a connect() for a connection that a newer attempt superseded: when its
\* connect() runs, the timer is the one scheduled last and connectionState is still
\* the reconnecting that its scheduling set.
C35_SingleReconnectTimer ==
    /\ [](Cardinality(PendingTimers) <= 1)
    /\ [][TimerConnects
            => /\ connectionState = "reconnecting"
               /\ FiredTimer = {reconnectTimeoutRef}]_vars


\* ------------------------------------------- the hook's storage keys and the site id
\* src/src/hooks/useNfdAgentsWebSocket.js lines 55-61, 128-145, 177-184, 211-224 and
\* 708-725, on a storage that works.  Every render builds the keys from the cached site
\* id; saveSessionId and saveConversationId are callbacks of the render they were created
\* in, and the message handler of a connection keeps those of the connect() that made it.
MaxSiteOps == 5      \* operations of the hook in one run of the key scopes

\* const siteId = getSiteId(); const keyPrefix = ...
RenderScope(s) == getSiteId(s, "none").ret

\* connect(): "if (config.site_id) { ... setSiteId(...); migrateStorageKeys(...) }"
CacheSiteId(s, site) ==
    LET currentSiteId == getSiteId(s, "none").ret IN
    IF currentSiteId # site
    THEN migrateStorageKeys(setSiteId(s, site, "none").st, currentSiteId, site, "none")
    ELSE Done(s)

\* saveConversationId(cid)
saveConversationIdKey(s, scope, id) == Catch(setItem(s, scope, "conversation-id", <<id>>, "none"), <<>>)

SiteStep(r, rec, scopes, migrated) ==
    /\ clock < MaxSiteOps
    /\ ls' = r.st.ls
    /\ lsSiteId' = r.st.site
    /\ keyScopes' = scopes
    /\ migratedConn' = migrated
    /\ slast' = [rec EXCEPT !.ret = r.ret, !.raised = r.raised, !.prev = slast.op,
                            !.changed = {k \in Scopes \X {"history", "conversation-id", "session-id", "archive"} :
                                            r.st.ls[k[1]][k[2]] # ls[k[1]][k[2]]}]
    /\ clock' = clock + 1
    /\ UNCHANGED <<StoreHookVars, archLog, archOnly>>

\* a render: the keys are built anew
SiteRender ==
    SiteStep(Done(Store), StoreRec("render", RenderScope(Store), 0, <<>>, 0, 0, "none"),
             [keyScopes EXCEPT !.render = RenderScope(Store)], migratedConn)

\* a render after messages changed, and its effect persistMessages(STORAGE_KEY, messages)
SiteMessagesEffect ==
    \E msgs \in {<<MU, MA>>, <<MA>>} :
        LET scope == RenderScope(Store) IN
        SiteStep(persistMessages(Store, scope, msgs, "none"),
                 StoreRec("persistMessages", scope, 0, msgs, 0, 0, "none"),
                 [keyScopes EXCEPT !.render = scope], migratedConn)

\* a render after conversationId changed, and its effect
\* persistConversationId(CONVERSATION_STORAGE_KEY, conversationId)
SiteConversationEffect ==
    \E id \in {0} \cup StoreIds :
        LET scope == RenderScope(Store) IN
        SiteStep(persistConversationId(Store, scope, id, "none"),
                 StoreRec("persistConversationId", scope, 0, <<>>, 0, id, "none"),
                 [keyScopes EXCEPT !.render = scope], migratedConn)

\* connect() of the latest render (the auto-connect effect, connect(), manualRetry())
\* with the config resolved: it caches the site id of the config, migrates the keys and
\* wires the handler with the callbacks of its render
SiteConnect ==
    \E site \in Sites :
        SiteStep(CacheSiteId(Store, site),
                 StoreRec("connect", site, lsSiteId, <<>>, 0, 0, "none"),
                 [keyScopes EXCEPT !.handler = keyScopes.render], lsSiteId # site)

\* the reconnect timer of the current connection: the connect() that made the
\* connection runs again and wires the handler with the same callbacks
SiteReconnect ==
    /\ keyScopes.handler # -1
    /\ \E site \in Sites :
         SiteStep(CacheSiteId(Store, site),
                  StoreRec("reconnect", site, lsSiteId, <<>>, 0, 0, "none"),
                  keyScopes, lsSiteId # site)

\* a session_established frame with a session id: saveSessionId(data.session_id)
SiteSessionEstablished ==
    /\ keyScopes.handler # -1
    /\ \E id \in StoreIds :
         SiteStep(saveSessionIdKey(Store, keyScopes.handler, id, "none"),
                  StoreRec("saveSessionId", keyScopes.handler, 0, <<>>, id, 0, "none"),
                  keyScopes, migratedConn)

\* a frame with a conversation id: saveConversationId(newConversationId)
SiteConversationFrame ==
    /\ keyScopes.handler # -1
    /\ \E id \in StoreIds :
         SiteStep(saveConversationIdKey(Store, keyScopes.handler, id),
                  StoreRec("saveConversationId", keyScopes.handler, 0, <<>>, 0, id, "none"),
                  keyScopes, migratedConn)

SiteNext ==
    \/ SiteRender
    \/ SiteMessagesEffect
    \/ SiteConversationEffect
    \/ SiteConnect
    \/ SiteReconnect
    \/ SiteSessionEstablished
    \/ SiteConversationFrame

SiteSpec == StoreInit /\ [][SiteNext]_vars

HookStoreWrites == {"saveSessionId", "saveConversationId", "persistMessages", "persistConversationId"}

\* C37: after connect() has cached a new site id and migrated the keys, every later
\* store write of the hook on that connection (the session id of session_established,
\* the conversation id, the messages) changes keys of the new scope only; nothing is
\* written under the keys of the old scope again.
C37_WritesFollowMigration ==
    [][(migratedConn /\ clock' # clock /\ slast'.op \in HookStoreWrites)
         => \A k \in slast'.changed : k[1] = lsSiteId]_vars

====
